---- MODULE Spec2Model ----
(***************************************************************************)
(* A model of the proxychannel request handler (package proxychannel):     *)
(* Proxy.ServeHTTP, its five forwarders, Proxy.DoRequest, the header       *)
(* utilities, the close-once guard and the byte pump.                      *)
(*                                                                         *)
(* Text is modelled as a sequence of one-character strings, so that the    *)
(* string functions the code calls (strings.Split, strings.TrimSpace,      *)
(* strings.EqualFold, http.Header's key canonicalisation) are computed     *)
(* and not assumed.  A header is a function from the header keys of the    *)
(* model to the list of values stored under the key (<<>>: key absent).    *)
(***************************************************************************)
EXTENDS Integers, Sequences, FiniteSets, TLC

(***************************************************************************)
(* Bounds of the model.                                                    *)
(***************************************************************************)
\* Number of other ServeHTTP calls that run concurrently with the observed one.
NumBg == 1
NumCalls == 2
MaxWrites == 3
\* Number of goroutines that call the close-once guard of one context.
NumClosers == 2
\* Number of guarded close calls each of them makes.
MaxCloseCalls == 2
\* Bytes each side of the byte pump has to send, and the largest chunk one Read returns.
MaxBytes == 2

(***************************************************************************)
(* Text                                                                    *)
(***************************************************************************)
UpperChars == <<"A", "B", "C", "D", "E", "F", "G", "H", "I", "J", "K", "L", "M",
                "N", "O", "P", "Q", "R", "S", "T", "U", "V", "W", "X", "Y", "Z">>
LowerChars == <<"a", "b", "c", "d", "e", "f", "g", "h", "i", "j", "k", "l", "m",
                "n", "o", "p", "q", "r", "s", "t", "u", "v", "w", "x", "y", "z">>

IsUpper(c) == \E i \in 1..26 : UpperChars[i] = c
IsLower(c) == \E i \in 1..26 : LowerChars[i] = c
ToLowerCh(c) == IF IsUpper(c) THEN LowerChars[CHOOSE i \in 1..26 : UpperChars[i] = c] ELSE c
ToUpperCh(c) == IF IsLower(c) THEN UpperChars[CHOOSE i \in 1..26 : LowerChars[i] = c] ELSE c
IsSpaceCh(c) == c \in {" ", "\t", "\n", "\r"}

\* strings.EqualFold on the ASCII text of the model.
EqualFold(s, t) ==
    /\ Len(s) = Len(t)
    /\ \A i \in 1..Len(s) : ToLowerCh(s[i]) = ToLowerCh(t[i])

\* strings.TrimSpace: leading and trailing white space removed.
RECURSIVE TrimLeft(_)
TrimLeft(s) == IF s # <<>> /\ IsSpaceCh(Head(s)) THEN TrimLeft(Tail(s)) ELSE s
RECURSIVE TrimRight(_)
TrimRight(s) ==
    IF s # <<>> /\ IsSpaceCh(s[Len(s)]) THEN TrimRight(SubSeq(s, 1, Len(s) - 1)) ELSE s
TrimSpace(s) == TrimRight(TrimLeft(s))

\* strings.Split(s, sep) for a one-character separator: Split("", ",") is [""].
RECURSIVE Split(_, _)
Split(s, sep) ==
    IF \E i \in 1..Len(s) : s[i] = sep
    THEN LET i == CHOOSE j \in 1..Len(s) : s[j] = sep /\ \A k \in 1..(j - 1) : s[k] # sep
         IN  <<SubSeq(s, 1, i - 1)>> \o Split(SubSeq(s, i + 1, Len(s)), sep)
    ELSE <<s>>

\* A byte that may appear in a header field name (a token of RFC 7230).
ValidHeaderFieldByte(c) ==
    \/ IsUpper(c) \/ IsLower(c)
    \/ c \in {"0", "1", "2", "3", "4", "5", "6", "7", "8", "9", "-", "_", ".", "!", "#"}

\* textproto.CanonicalMIMEHeaderKey: a key with a byte that is no token byte is
\* returned as it is; otherwise the first letter and every letter after a dash
\* are made upper case and the others lower case.
CanonicalMIMEHeaderKey(s) ==
    IF \E i \in 1..Len(s) : ~ValidHeaderFieldByte(s[i])
    THEN s
    ELSE [i \in 1..Len(s) |->
            IF i = 1 \/ s[i - 1] = "-" THEN ToUpperCh(s[i]) ELSE ToLowerCh(s[i])]

(***************************************************************************)
(* Header keys and the texts of the model                                  *)
(***************************************************************************)
HConnection == <<"C", "o", "n", "n", "e", "c", "t", "i", "o", "n">>
HProxyConnection == <<"P", "r", "o", "x", "y", "-", "C", "o", "n", "n", "e", "c", "t", "i", "o", "n">>
HKeepAlive == <<"K", "e", "e", "p", "-", "A", "l", "i", "v", "e">>
HProxyAuthenticate == <<"P", "r", "o", "x", "y", "-", "A", "u", "t", "h", "e", "n", "t", "i", "c", "a", "t", "e">>
HProxyAuthorization == <<"P", "r", "o", "x", "y", "-", "A", "u", "t", "h", "o", "r", "i", "z", "a", "t", "i", "o", "n">>
HTe == <<"T", "e">>
HTrailer == <<"T", "r", "a", "i", "l", "e", "r">>
HTransferEncoding == <<"T", "r", "a", "n", "s", "f", "e", "r", "-", "E", "n", "c", "o", "d", "i", "n", "g">>
HUpgrade == <<"U", "p", "g", "r", "a", "d", "e">>
HMitm == <<"M", "i", "t", "m">>
HXFoo == <<"X", "-", "F", "o", "o">>

sMITM == <<"M", "I", "T", "M">>
sEnabled == <<"E", "n", "a", "b", "l", "e", "d">>
sUpgrade == <<"u", "p", "g", "r", "a", "d", "e">>
sWebsocket == <<"w", "e", "b", "s", "o", "c", "k", "e", "t">>
sEmpty == <<>>

vEnabledLower == <<"e", "n", "a", "b", "l", "e", "d">>
vWebSocketMixed == <<"W", "e", "b", "S", "o", "c", "k", "e", "t">>
vKeepAliveUpgrade == <<"k", "e", "e", "p", "-", "a", "l", "i", "v", "e", ",", " ", "U", "p", "g", "r", "a", "d", "e">>
vClose == <<"c", "l", "o", "s", "e">>
vUpgradeXFoo == <<"u", "p", "g", "r", "a", "d", "e", ",", " ", "x", "-", "f", "o", "o">>
vXFooLower == <<"x", "-", "f", "o", "o">>
vKeepAlive == <<"k", "e", "e", "p", "-", "a", "l", "i", "v", "e">>
vOne == <<"1">>
vH2c == <<"h", "2", "c">>
vBasic == <<"B", "a", "s", "i", "c", " ", "d", "T", "p", "w">>

\* var hopHeaders
hopHeaders == <<HConnection, HProxyConnection, HKeepAlive, HProxyAuthenticate,
                HProxyAuthorization, HTe, HTrailer, HTransferEncoding, HUpgrade>>

\* The header keys a header of the model may hold.
HeaderKeys == {hopHeaders[i] : i \in 1..Len(hopHeaders)} \cup {HMitm, HXFoo}

EmptyHeader == [k \in HeaderKeys |-> <<>>]

(***************************************************************************)
(* http.Header                                                             *)
(***************************************************************************)
\* Header.Get: the first value stored under the canonical form of key, "" if none.
HeaderGet(h, key) ==
    LET k == CanonicalMIMEHeaderKey(key)
    IN  IF k \in DOMAIN h /\ h[k] # <<>> THEN h[k][1] ELSE sEmpty

\* Header.Del: every value stored under the canonical form of key is removed.
HeaderDel(h, key) ==
    LET k == CanonicalMIMEHeaderKey(key)
    IN  IF k \in DOMAIN h THEN [h EXCEPT ![k] = <<>>] ELSE h

\* Header.Add: the value is appended to the values stored under the key.
HeaderAdd(h, key, value) ==
    LET k == CanonicalMIMEHeaderKey(key)
    IN  IF k \in DOMAIN h THEN [h EXCEPT ![k] = Append(@, value)] ELSE h

\* CloneHeader: a deep copy, key by key and value by value.
CloneHeader(h) == [k \in DOMAIN h |-> [i \in 1..Len(h[k]) |-> h[k][i]]]

\* CopyHeader: every value of src is added to dst.
CopyHeader(dst, src) == [k \in DOMAIN dst |-> dst[k] \o (IF k \in DOMAIN src THEN src[k] ELSE <<>>)]

\* headerContains without the split, the trim and the case folding.
headerContains_Exact(header, name, value) ==
    /\ name \in DOMAIN header
    /\ \E i \in 1..Len(header[name]) : header[name][i] = value

\* headerContains: some comma-separated field of some value stored under name
\* equals value, white space trimmed and case ignored.
headerContains(header, name, value) ==
    /\ name \in DOMAIN header
    /\ \E i \in 1..Len(header[name]) :
          LET fields == Split(header[name][i], ",")
          IN  \E j \in 1..Len(fields) : EqualFold(value, TrimSpace(fields[j]))

\* isWebSocketRequest
isWebSocketRequest(r) ==
    /\ headerContains(r.header, HConnection, sUpgrade)
    /\ headerContains(r.header, HUpgrade, sWebsocket)

\* removeConnectionHeaders: the fields of the first Connection value, if it is
\* not empty, are deleted from the header.
RECURSIVE DelFields(_, _)
DelFields(h, fields) ==
    IF fields = <<>> THEN h
    ELSE LET f == TrimSpace(Head(fields))
         IN  DelFields(IF f # sEmpty THEN HeaderDel(h, f) ELSE h, Tail(fields))

removeConnectionHeaders(h) ==
    LET c == HeaderGet(h, HConnection)
    IN  IF c # sEmpty THEN DelFields(h, Split(c, ",")) ELSE h

\* removeMITMHeaders
removeMITMHeaders(h) ==
    IF HeaderGet(h, sMITM) # sEmpty THEN HeaderDel(h, sMITM) ELSE h

\* DoRequest, lines 182-186: a hop-by-hop header is deleted from the request
\* when its first value is not empty.
RECURSIVE DelHopIfSet(_, _)
DelHopIfSet(h, items) ==
    IF items = <<>> THEN h
    ELSE DelHopIfSet(IF HeaderGet(h, Head(items)) # sEmpty THEN HeaderDel(h, Head(items)) ELSE h,
                     Tail(items))

\* DoRequest, lines 258-260: every hop-by-hop header is deleted from the response.
RECURSIVE DelHop(_, _)
DelHop(h, items) ==
    IF items = <<>> THEN h ELSE DelHop(HeaderDel(h, Head(items)), Tail(items))

\* DoRequest, lines 177-186: the header of the request handed to the transport.
OutboundHeader(h) ==
    DelHopIfSet(removeConnectionHeaders(removeMITMHeaders(CloneHeader(h))), hopHeaders)

\* DoRequest, lines 256-261: the header of a response the transport returned.
InboundHeader(h) == DelHop(removeConnectionHeaders(h), hopHeaders)


(***************************************************************************)
(* State                                                                   *)
(***************************************************************************)
VARIABLES
    pc,             \* position of the observed ServeHTTP call
    ctx,            \* its *Context: Req, abort, MITM, Hijack, errType, Closed
    calls,          \* the delegate callbacks it has invoked, in order
    fwd,            \* the forwarders the dispatcher has invoked, in order
    defers,         \* its deferred calls, the last registered last
    panicking,      \* a panic is unwinding its stack
    loc,            \* locals of its frames: parentProxyURL, newReq, resp/err
    sent,           \* the requests it has written upstream, in order
    toClient,       \* what it has written to the client, in order
    res,            \* its connections and the response body: none, open, closed
    clientConnNum,  \* Proxy.clientConnNum
    bg,             \* the other ServeHTTP calls: idle or serving
    tr,             \* the shared transport: the DoRequest call whose closure its
                    \* Proxy field holds, and the DoRequest calls using it
    lengthWriter,   \* a WriterWithLength, and the calls made on it
    closer,         \* close guard: each caller's position, calls made, argument
    guard,          \* close guard: the context's Lock holder and Closed, and the
                    \* Close calls made on each resource
    pump            \* byte pump: the two copies, the connections, the counters

handlerVars == <<pc, ctx, calls, fwd, defers, panicking, loc, sent, toClient, res>>
proxyVars == <<clientConnNum, bg, tr, lengthWriter>>
closeVars == <<closer, guard>>
vars == <<handlerVars, proxyVars, closeVars, pump>>

(***************************************************************************)
(* Inputs                                                                  *)
(***************************************************************************)
MkHeader(c, u, m, p, x) ==
    [k \in HeaderKeys |->
        IF k = HConnection THEN c
        ELSE IF k = HUpgrade THEN u
        ELSE IF k = HMitm THEN m
        ELSE IF k = HProxyConnection THEN p
        ELSE IF k = HXFoo THEN x
        ELSE <<>>]

\* Values of the Connection header of a request: absent; one value with two
\* fields; two header lines, the second naming upgrade and x-foo; one field.
ConnectionValues == {<<>>, <<vKeepAliveUpgrade>>, <<vClose, vUpgradeXFoo>>, <<vXFooLower>>}
UpgradeValues == {<<vWebSocketMixed>>, <<vH2c>>}
MitmValues == {<<>>, <<sEnabled>>, <<vEnabledLower>>, <<sEmpty>>}
ProxyConnectionValues == {<<vKeepAlive>>, <<sEmpty>>}
XFooValues == {<<vOne>>}

Methods == {"CONNECT", "GET"}

\* The hosts of the model: the origin a client names to the proxy, the host a
\* client names inside the TLS stream, and the host of a parent proxy's URL.
OriginHost == "origin.example:443"
InnerHost == "inner.example"
ParentHost == "parent.example:8080"

\* http.ReadRequest: Host is the host of the request line's URL and, when the
\* request line carries none, the Host header.
ReadRequestHost(urlHost, hostHeader) == IF urlHost # "" THEN urlHost ELSE hostHeader

\* The requests a client may send; urlHost is Req.URL.Host, host is Req.Host.
Requests ==
    {[method |-> m, header |-> MkHeader(c, u, mi, p, x),
      urlHost |-> OriginHost, host |-> OriginHost] :
        m \in Methods, c \in ConnectionValues, u \in UpgradeValues,
        mi \in MitmValues, p \in ProxyConnectionValues, x \in XFooValues}

\* The requests a client may send inside the TLS stream the proxy terminates,
\* as http.ReadRequest returns them: in origin form ("GET /path", the request
\* line's URL has no host) or in absolute form, with a Host header.
InnerRequests ==
    {[method |-> "GET", header |-> MkHeader(cu[1], cu[2], mi, <<>>, <<vOne>>),
      urlHost |-> uh, host |-> ReadRequestHost(uh, InnerHost)] :
        cu \in {<<<<>>, <<>>>>, <<<<vKeepAliveUpgrade>>, <<vWebSocketMixed>>>>},
        mi \in {<<>>, <<sEnabled>>, <<sEmpty>>},
        uh \in {"", InnerHost}}

\* The headers of the responses an upstream may give.
RespHeaders ==
    {MkHeader(c, <<>>, <<>>, <<sEmpty>>, <<vOne>>) :
        c \in {<<>>, <<vXFooLower>>, <<vClose, vXFooLower>>}}

\* What delegate.ParentProxy may return: no parent proxy, one without and one
\* with user-info in its URL.
NoParent == [set |-> FALSE, user |-> FALSE]
ParentURLs == {NoParent, [set |-> TRUE, user |-> FALSE], [set |-> TRUE, user |-> TRUE]}

\* How a delegate callback may end: it returns, it returns with ctx.abort set,
\* or it panics.
Outcomes == {"ok", "abort", "panic"}

Bgs == 1..NumBg

(***************************************************************************)
(* ServeHTTP                                                               *)
(***************************************************************************)
\* The largest value of an int32; the least is -Int32Max - 1.
Int32Max == 2147483647
Int32Min == -Int32Max - 1

\* atomic.AddInt32 on a 32-bit counter: the sum wraps around.
AddInt32(v, d) ==
    IF d > 0 /\ v > Int32Max - d THEN (v - Int32Max - 1) + d + Int32Min
    ELSE IF d < 0 /\ v < Int32Min - d THEN ((v - Int32Min) + d) + Int32Max + 1
    ELSE v + d

NoReq == [method |-> "", header |-> EmptyHeader, urlHost |-> "", host |-> ""]
NoResp == [err |-> FALSE, header |-> EmptyHeader, raw |-> EmptyHeader]

\* The Context literal of ServeHTTP; abort and errType have their zero values.
NewContext(r) ==
    [Req |-> r, Hijack |-> FALSE, MITM |-> FALSE, Closed |-> FALSE,
     abort |-> FALSE, errType |-> ""]

\* ctx.SetContextErrType / ctx.SetContextErrorWithType
SetContextErrType(c, kind) == [c EXCEPT !.errType = kind]

NoLoc == [req |-> NoReq, parent |-> NoParent, newReq |-> EmptyHeader, resp |-> NoResp,
          tlsReady |-> FALSE, wsReq |-> NoReq, dialAddr |-> "none"]
NoRes == [client |-> "none", target |-> "none", body |-> "none"]

\* ServeHTTP with one of its two defer statements left out.
ServeHTTPDefers_NoFinish == <<"clientConnNum-1">>
ServeHTTPDefers_NoDecrement == <<"Finish">>

\* The two defer statements of ServeHTTP, in the order they are registered.
ServeHTTPDefers == <<"clientConnNum-1", "Finish">>

\* A DoRequest that asks for the parent proxy before it calls BeforeRequest.
CallbackAt_Swapped(p) ==
    CASE p = "Connect" -> "Connect"
      [] p = "Auth" -> "Auth"
      [] p = "dr.BeforeRequest" -> "ParentProxy"
      [] p \in {"dr.ParentProxy", "tun.ParentProxy", "ws.ParentProxy", "wss.ParentProxy"} -> "BeforeRequest"
      [] p \in {"dr.BeforeResponse", "tun.BeforeResponse"} -> "BeforeResponse"
      [] p \in {"http.cont", "https.cont", "tun.DuringResponse"} -> "DuringResponse"
      [] OTHER -> "Finish"

\* The delegate method the code calls at a position.
CallbackAt(p) ==
    CASE p = "Connect" -> "Connect"
      [] p = "Auth" -> "Auth"
      [] p = "dr.BeforeRequest" -> "BeforeRequest"
      [] p \in {"dr.ParentProxy", "tun.ParentProxy", "ws.ParentProxy", "wss.ParentProxy"} -> "ParentProxy"
      [] p \in {"dr.BeforeResponse", "tun.BeforeResponse"} -> "BeforeResponse"
      [] p \in {"http.cont", "https.cont", "tun.DuringResponse"} -> "DuringResponse"
      [] OTHER -> "Finish"

\* A callback whose abort is not tested.
Checked_Ignored(abort, next) == next

\* "if ctx.abort { ...; return }" after a callback: where the handler goes on.
Checked(abort, next) == IF abort THEN "unwind" ELSE next

\* One invocation of a delegate callback: the method, ctx.abort when it
\* ended, and whether it ended in a panic.
Called(cb, abort, panic) == [cb |-> cb, abort |-> abort, panic |-> panic]

\* A delegate callback is invoked at the current position and ends with outcome
\* o; on abort the error kind is recorded and the function returns; a panic
\* starts unwinding.
Invoke(o, errKind, next) ==
    /\ calls' = Append(calls, Called(CallbackAt(pc), ctx.abort \/ o = "abort", o = "panic"))
    /\ panicking' = (o = "panic")
    /\ ctx' = IF o = "abort"
              THEN SetContextErrType([ctx EXCEPT !.abort = TRUE], errKind)
              ELSE ctx
    /\ pc' = IF o = "panic" THEN "unwind" ELSE Checked(ctx'.abort, next)

\* ServeHTTP, lines 100-117: the counter is incremented, the context is made
\* and the two deferred calls are registered.
ServeHTTP_Enter ==
    /\ pc = "idle"
    /\ \E r \in Requests :
          /\ ctx' = NewContext(IF r.urlHost = "" THEN [r EXCEPT !.urlHost = r.host] ELSE r)
          /\ loc' = [loc EXCEPT !.req = r]
    /\ clientConnNum' = AddInt32(clientConnNum, 1)
    /\ defers' = ServeHTTPDefers
    /\ pc' = "Connect"
    /\ UNCHANGED <<calls, fwd, panicking, sent, toClient, res, bg, tr, lengthWriter, closeVars, pump>>

\* ServeHTTP, lines 118-122
Connect ==
    /\ pc = "Connect"
    /\ \E o \in Outcomes : Invoke(o, "ConnectFail", "Auth")
    /\ UNCHANGED <<fwd, defers, loc, sent, toClient, res, proxyVars, closeVars, pump>>

\* ServeHTTP, lines 123-127
Auth ==
    /\ pc = "Auth"
    /\ \E o \in Outcomes : Invoke(o, "AuthFail", "dispatch")
    /\ UNCHANGED <<fwd, defers, loc, sent, toClient, res, proxyVars, closeVars, pump>>

\* ServeHTTP, lines 130-148: the forwarder the request is routed to.
forwarderFor(r) ==
    IF r.method = "CONNECT"
    THEN IF HeaderGet(r.header, sMITM) = sEnabled
         THEN IF isWebSocketRequest(r) THEN "forwardHTTPSWebsocket" ELSE "forwardHTTPS"
         ELSE "forwardTunnel"
    ELSE IF isWebSocketRequest(r) THEN "forwardHTTPWebsocket" ELSE "forwardHTTP"

\* forwardHTTPS entered past its first two steps, at the write of the 200 line.
EntryOf_PastHijack(f) ==
    CASE f = "forwardHTTP" -> "dr.BeforeRequest"
      [] f = "forwardHTTPS" -> "https.write200"
      [] f = "forwardTunnel" -> "tun.ParentProxy"
      [] f = "forwardHTTPWebsocket" -> "ws.ParentProxy"
      [] f = "forwardHTTPSWebsocket" -> "wss.ParentProxy"

\* The first position of each forwarder.
EntryOf(f) ==
    CASE f = "forwardHTTP" -> "dr.BeforeRequest"
      [] f = "forwardHTTPS" -> "https.tlsconfig"
      [] f = "forwardTunnel" -> "tun.ParentProxy"
      [] f = "forwardHTTPWebsocket" -> "ws.ParentProxy"
      [] f = "forwardHTTPSWebsocket" -> "wss.ParentProxy"

\* ServeHTTP, lines 129-148
Dispatch ==
    /\ pc = "dispatch"
    /\ LET f == forwarderFor(ctx.Req)
       IN  /\ fwd' = Append(fwd, f)
           /\ ctx' = [ctx EXCEPT !.MITM = (ctx.Req.method = "CONNECT"
                                           /\ HeaderGet(ctx.Req.header, sMITM) = sEnabled)]
           /\ pc' = EntryOf(f)
    /\ UNCHANGED <<calls, defers, panicking, loc, sent, toClient, res, proxyVars, closeVars, pump>>

(***************************************************************************)
(* What the handler writes                                                 *)
(***************************************************************************)
\* One write to the client: through the response-writer ("rw"), the hijacked
\* socket ("clientConn") or the TLS connection over it ("tlsClientConn");
\* hijacked is ctx.Hijack at the time of the write.
Out(via, kind, header) ==
    [via |-> via, kind |-> kind, header |-> header, orig |-> EmptyHeader, hijacked |-> ctx.Hijack]

\* A response relayed to the client: header is what is written, orig the header
\* of the response as the upstream gave it.
Relay(via, header, orig) ==
    [via |-> via, kind |-> "response", header |-> header, orig |-> orig, hijacked |-> ctx.Hijack]

\* rw.WriteHeader(http.StatusBadGateway)
Status502 == Out("rw", "status 502", EmptyHeader)

\* WriteProxyErrorToResponseBody: the prefix, if one is given, and then the
\* JSON ProxyError are written to respWriter.
\* var tunnelEstablishedResponseLine
tunnelEstablishedResponseLine == "HTTP/1.1 200 Connection established\r\n\r\n"

WriteProxyErrorToResponseBody(via, withPrefix) ==
    (IF withPrefix THEN <<Out(via, "HTTP/1.1 502 ", EmptyHeader)>> ELSE <<>>)
        \o <<Out(via, "ProxyError", EmptyHeader)>>

\* The header lines Request.Write and Response.Write put on the wire: the
\* header without Transfer-Encoding and Trailer, which they write from the
\* message's own fields.
WireHeader(h) == [k \in DOMAIN h |-> IF k \in {HTransferEncoding, HTrailer} THEN <<>> ELSE h[k]]

\* One request written upstream: handed to the shared transport ("transport")
\* or written to the dialed connection ("targetConn"); header is what is
\* written, orig the header of the client's request it is written for.
Sent(to, method, header, orig) == [to |-> to, method |-> method, header |-> header, orig |-> orig]

Last(s) == s[Len(s)]

(***************************************************************************)
(* DoRequest                                                               *)
(***************************************************************************)
\* DoRequest, lines 172-186: BeforeRequest, then the request is cloned and its
\* header cleaned.
BeforeRequest ==
    /\ pc = "dr.BeforeRequest"
    /\ \E o \in Outcomes :
          /\ Invoke(o, "BeforeRequestFail", "dr.ParentProxy")
          /\ loc' = IF o = "ok"
                    THEN [loc EXCEPT !.newReq = OutboundHeader(ctx.Req.header)]
                    ELSE loc
    /\ UNCHANGED <<fwd, defers, sent, toClient, res, proxyVars, closeVars, pump>>

\* DoRequest, lines 189-199
ParentProxy ==
    /\ pc = "dr.ParentProxy"
    /\ \E o \in Outcomes, u \in ParentURLs :
          /\ o # "ok" => u = NoParent
          /\ Invoke(o, "ParentProxyFail", "dr.RoundTrip")
          /\ loc' = [loc EXCEPT !.parent = u]
    /\ UNCHANGED <<fwd, defers, sent, toClient, res, proxyVars, closeVars, pump>>

\* DoRequest, lines 201-249: the request is issued through the shared
\* transport, which returns a response or an error; a request that failed may
\* or may not have been written.
RoundTrip ==
    /\ pc = "dr.RoundTrip"
    /\ \E err \in BOOLEAN, wrote \in BOOLEAN, h \in RespHeaders :
          /\ ~err => wrote
          /\ err => h = CHOOSE x \in RespHeaders : TRUE
          /\ sent' = IF wrote
                     THEN Append(sent, Sent("transport", ctx.Req.method, loc.newReq, ctx.Req.header))
                     ELSE sent
          /\ loc' = [loc EXCEPT !.resp = IF err THEN [NoResp EXCEPT !.err = TRUE]
                                         ELSE [err |-> FALSE, header |-> h, raw |-> h]]
          /\ res' = [res EXCEPT !.body = IF err THEN @ ELSE "open"]
    /\ pc' = "dr.BeforeResponse"
    /\ UNCHANGED <<ctx, calls, fwd, defers, panicking, toClient, proxyVars, closeVars, pump>>

\* DoRequest, lines 251-262: BeforeResponse, then the response's header is
\* cleaned and the caller's continuation runs.
BeforeResponse ==
    /\ pc = "dr.BeforeResponse"
    /\ \E o \in Outcomes :
          /\ Invoke(o, "BeforeResponseFail",
                    IF Last(fwd) = "forwardHTTP" THEN "http.cont" ELSE "https.cont")
          /\ loc' = IF o = "ok" /\ ~loc.resp.err
                    THEN [loc EXCEPT !.resp.header = InboundHeader(@)]
                    ELSE loc
    /\ UNCHANGED <<fwd, defers, sent, toClient, res, proxyVars, closeVars, pump>>

(***************************************************************************)
(* forwardHTTP                                                             *)
(***************************************************************************)
\* forwardHTTP, lines 490-500: on an error 502 and the ProxyError are written;
\* otherwise the body's close is deferred and DuringResponse is called.
HTTPContinuation ==
    /\ pc = "http.cont"
    /\ IF loc.resp.err
       THEN /\ toClient' = toClient \o <<Status502>> \o WriteProxyErrorToResponseBody("rw", FALSE)
            /\ ctx' = SetContextErrType(ctx, "HTTPDoRequestFail")
            /\ pc' = "unwind"
            /\ UNCHANGED <<calls, defers, panicking>>
       ELSE /\ defers' = Append(defers, "CloseResponseBody")
            /\ \E o \in Outcomes :
                  /\ calls' = Append(calls, Called(CallbackAt(pc), o = "abort", o = "panic"))
                  /\ ctx' = [ctx EXCEPT !.abort = (o = "abort")]
                  /\ panicking' = (o = "panic")
                  /\ pc' = IF o = "panic" THEN "unwind" ELSE "http.write"
            /\ UNCHANGED toClient
    /\ UNCHANGED <<fwd, loc, sent, res, proxyVars, closeVars, pump>>

\* forwardHTTP, lines 502-511: the response's header, status and body go to
\* the client through the response-writer.
HTTPWriteResponse ==
    /\ pc = "http.write"
    /\ toClient' = Append(toClient, Relay("rw", CopyHeader(EmptyHeader, loc.resp.header), loc.resp.raw))
    /\ \E ok \in BOOLEAN :
          ctx' = IF ok THEN ctx ELSE SetContextErrType(ctx, "HTTPWriteClientFail")
    /\ pc' = "unwind"
    /\ UNCHANGED <<calls, fwd, defers, panicking, loc, sent, res, proxyVars, closeVars, pump>>

(***************************************************************************)
(* forwardHTTPS                                                            *)
(***************************************************************************)
\* forwardHTTPS, lines 517-524
HTTPSGenerateTLSConfig ==
    /\ pc = "https.tlsconfig"
    /\ \E ok \in BOOLEAN :
          IF ok
          THEN /\ pc' = "https.hijack"
               /\ UNCHANGED <<ctx, toClient>>
          ELSE /\ toClient' = toClient \o <<Status502>> \o WriteProxyErrorToResponseBody("rw", FALSE)
               /\ ctx' = SetContextErrType(ctx, "HTTPSGenerateTLSConfigFail")
               /\ pc' = "unwind"
    /\ UNCHANGED <<calls, fwd, defers, panicking, loc, sent, res, proxyVars, closeVars, pump>>

\* forwardHTTPS, lines 525-534
HTTPSHijack ==
    /\ pc = "https.hijack"
    /\ \E ok \in BOOLEAN :
          IF ok
          THEN /\ ctx' = [ctx EXCEPT !.Hijack = TRUE]
               /\ res' = [res EXCEPT !.client = "open"]
               /\ defers' = Append(defers, "clientConn.Close")
               /\ pc' = "https.write200"
               /\ UNCHANGED toClient
          ELSE /\ toClient' = toClient \o <<Status502>> \o WriteProxyErrorToResponseBody("rw", FALSE)
               /\ ctx' = SetContextErrType(ctx, "HTTPSHijackClientConnFail")
               /\ pc' = "unwind"
               /\ UNCHANGED <<res, defers>>
    /\ UNCHANGED <<calls, fwd, panicking, loc, sent, proxyVars, closeVars, pump>>

\* forwardHTTPS, lines 535-544: the 200 line is written to the hijacked socket,
\* which is then wrapped as a TLS server whose guarded close is deferred.
HTTPSWriteEstablished ==
    /\ pc = "https.write200"
    /\ \E ok \in BOOLEAN :
          IF ok
          THEN /\ toClient' = Append(toClient, Out("clientConn", tunnelEstablishedResponseLine, EmptyHeader))
               /\ defers' = Append(defers, "CloseNetConn(tlsClientConn)")
               /\ pc' = "https.handshake"
               /\ UNCHANGED ctx
          ELSE /\ ctx' = SetContextErrType(ctx, "HTTPSWriteEstRespFail")
               /\ pc' = "unwind"
               /\ UNCHANGED <<toClient, defers>>
    /\ UNCHANGED <<calls, fwd, panicking, loc, sent, res, proxyVars, closeVars, pump>>

\* forwardHTTPS, lines 545-549
HTTPSHandshake ==
    /\ pc = "https.handshake"
    /\ \E ok \in BOOLEAN :
          IF ok
          THEN /\ loc' = [loc EXCEPT !.tlsReady = TRUE]
               /\ pc' = "https.readreq"
               /\ UNCHANGED ctx
          ELSE /\ ctx' = SetContextErrType(ctx, "HTTPSTLSClientConnHandshakeFail")
               /\ pc' = "unwind"
               /\ UNCHANGED loc
    /\ UNCHANGED <<calls, fwd, defers, panicking, sent, toClient, res, proxyVars, closeVars, pump>>

\* forwardHTTPS, lines 550-564: one request is read off the TLS stream and
\* replaces ctx.Req; EOF ends the handler without an error kind.
HTTPSReadRequest ==
    /\ pc = "https.readreq"
    /\ \E how \in {"ok", "EOF", "error"}, r \in InnerRequests :
          /\ how # "ok" => r.header = MkHeader(<<>>, <<>>, <<>>, <<>>, <<vOne>>)
          /\ ctx' = IF how = "ok" THEN [ctx EXCEPT !.Req = [r EXCEPT !.urlHost = r.host]]
                    ELSE IF how = "error" THEN SetContextErrType(ctx, "HTTPSReadReqFromBufFail")
                    ELSE ctx
          /\ pc' = IF how = "ok" THEN "dr.BeforeRequest" ELSE "unwind"
    /\ UNCHANGED <<calls, fwd, defers, panicking, loc, sent, toClient, res, proxyVars, closeVars, pump>>

\* forwardHTTPS, lines 564-572: on an error the 502 prefix and the ProxyError
\* are written inside the TLS stream; otherwise the body's close is deferred
\* and DuringResponse is called.
HTTPSContinuation ==
    /\ pc = "https.cont"
    /\ IF loc.resp.err
       THEN /\ toClient' = toClient \o WriteProxyErrorToResponseBody("tlsClientConn", TRUE)
            /\ ctx' = SetContextErrType(ctx, "HTTPSDoRequestFail")
            /\ pc' = "unwind"
            /\ UNCHANGED <<calls, defers, panicking>>
       ELSE /\ defers' = Append(defers, "CloseResponseBody")
            /\ \E o \in Outcomes :
                  /\ calls' = Append(calls, Called(CallbackAt(pc), o = "abort", o = "panic"))
                  /\ ctx' = [ctx EXCEPT !.abort = (o = "abort")]
                  /\ panicking' = (o = "panic")
                  /\ pc' = IF o = "panic" THEN "unwind" ELSE "https.write"
            /\ UNCHANGED toClient
    /\ UNCHANGED <<fwd, loc, sent, res, proxyVars, closeVars, pump>>

\* forwardHTTPS, lines 574-580: the response is written to the TLS connection
\* through a WriterWithLength.
HTTPSWriteResponse ==
    /\ pc = "https.write"
    /\ toClient' = Append(toClient, Relay("tlsClientConn", WireHeader(loc.resp.header), loc.resp.raw))
    /\ \E ok \in BOOLEAN :
          ctx' = IF ok THEN ctx ELSE SetContextErrType(ctx, "HTTPSWriteRespFail")
    /\ pc' = "unwind"
    /\ UNCHANGED <<calls, fwd, defers, panicking, loc, sent, res, proxyVars, closeVars, pump>>

(***************************************************************************)
(* forwardTunnel                                                           *)
(***************************************************************************)
\* forwardTunnel, lines 586-590
TunnelParentProxy ==
    /\ pc = "tun.ParentProxy"
    /\ \E o \in Outcomes, u \in ParentURLs :
          /\ o # "ok" => u = NoParent
          /\ Invoke(o, "ParentProxyFail", "tun.hijack")
          /\ loc' = [loc EXCEPT !.parent = u]
    /\ UNCHANGED <<fwd, defers, sent, toClient, res, proxyVars, closeVars, pump>>

\* forwardTunnel, lines 591-600
TunnelHijack ==
    /\ pc = "tun.hijack"
    /\ \E ok \in BOOLEAN :
          IF ok
          THEN /\ ctx' = [ctx EXCEPT !.Hijack = TRUE]
               /\ res' = [res EXCEPT !.client = "open"]
               /\ defers' = Append(defers, "clientConn.Close")
               /\ pc' = "tun.dial"
               /\ UNCHANGED toClient
          ELSE /\ toClient' = toClient \o <<Status502>> \o WriteProxyErrorToResponseBody("rw", FALSE)
               /\ ctx' = SetContextErrType(ctx, "TunnelHijackClientConnFail")
               /\ pc' = "unwind"
               /\ UNCHANGED <<res, defers>>
    /\ UNCHANGED <<calls, fwd, panicking, loc, sent, proxyVars, closeVars, pump>>

\* The address a forwarder dials for a request: the parent proxy's host if
\* there is one, the host of the request's URL otherwise (lines 319-322,
\* 414-417 and 602-605).
DialAddr(parent, r) == IF parent.set THEN ParentHost ELSE r.urlHost

\* net.DialTimeout, tls.DialWithDialer: no address, no connection.
CanDial(addr) == addr # ""

\* forwardTunnel, lines 602-611: the target, or the parent proxy, is dialed.
TunnelDial ==
    /\ pc = "tun.dial"
    /\ \E ok \in BOOLEAN :
          /\ ok => CanDial(DialAddr(loc.parent, ctx.Req))
          /\ loc' = [loc EXCEPT !.resp = [NoResp EXCEPT !.err = ~ok],
                                !.dialAddr = DialAddr(loc.parent, ctx.Req)]
          /\ res' = [res EXCEPT !.target = IF ok THEN "open" ELSE @]
    /\ pc' = "tun.BeforeResponse"
    /\ UNCHANGED <<ctx, calls, fwd, defers, panicking, sent, toClient, proxyVars, closeVars, pump>>

\* forwardTunnel, lines 612-616
TunnelBeforeResponse ==
    /\ pc = "tun.BeforeResponse"
    /\ \E o \in Outcomes : Invoke(o, "BeforeResponseFail", "tun.dialed")
    /\ UNCHANGED <<fwd, defers, loc, sent, toClient, res, proxyVars, closeVars, pump>>

\* forwardTunnel, lines 617-623: a failed dial is answered with the prefixed
\* ProxyError on the hijacked socket; otherwise the target's guarded close is
\* deferred.
TunnelDialed ==
    /\ pc = "tun.dialed"
    /\ IF loc.resp.err
       THEN /\ toClient' = toClient \o WriteProxyErrorToResponseBody("clientConn", TRUE)
            /\ ctx' = SetContextErrType(ctx, "TunnelDialRemoteServerFail")
            /\ pc' = "unwind"
            /\ UNCHANGED defers
       ELSE /\ defers' = Append(defers, "CloseNetConn(targetConn)")
            /\ pc' = "tun.DuringResponse"
            /\ UNCHANGED <<ctx, toClient>>
    /\ UNCHANGED <<calls, fwd, panicking, loc, sent, res, proxyVars, closeVars, pump>>

\* forwardTunnel, line 624
TunnelDuringResponse ==
    /\ pc = "tun.DuringResponse"
    /\ \E o \in Outcomes :
          /\ calls' = Append(calls, Called(CallbackAt(pc), o = "abort", o = "panic"))
          /\ ctx' = [ctx EXCEPT !.abort = (o = "abort")]
          /\ panicking' = (o = "panic")
          /\ pc' = IF o = "panic" THEN "unwind" ELSE "tun.establish"
    /\ UNCHANGED <<fwd, defers, loc, sent, toClient, res, proxyVars, closeVars, pump>>

\* The user-info of the parent proxy's URL, when it has one, and the bytes of
\* its characters.
Username == <<"u">>
Password == <<"p">>
ByteOf(c) == CASE c = "u" -> 117 [] c = "p" -> 112 [] c = ":" -> 58
Bytes(text) == [i \in 1..Len(text) |-> ByteOf(text[i])]

\* base64.StdEncoding: the alphabet, and EncodeToString, which turns every
\* three bytes into four characters and pads the last group with "=".
encodeStd ==
    <<"A", "B", "C", "D", "E", "F", "G", "H", "I", "J", "K", "L", "M", "N", "O", "P",
      "Q", "R", "S", "T", "U", "V", "W", "X", "Y", "Z", "a", "b", "c", "d", "e", "f",
      "g", "h", "i", "j", "k", "l", "m", "n", "o", "p", "q", "r", "s", "t", "u", "v",
      "w", "x", "y", "z", "0", "1", "2", "3", "4", "5", "6", "7", "8", "9", "+", "/">>
RECURSIVE EncodeToString(_)
EncodeToString(b) ==
    LET at(i) == IF i <= Len(b) THEN b[i] ELSE 0
        n == at(1) * 65536 + at(2) * 256 + at(3)
        ch(k) == encodeStd[((n \div k) % 64) + 1]
    IN  IF Len(b) = 0 THEN <<>>
        ELSE IF Len(b) = 1 THEN <<ch(262144), ch(4096), "=", "=">>
        ELSE IF Len(b) = 2 THEN <<ch(262144), ch(4096), ch(64), "=">>
        ELSE <<ch(262144), ch(4096), ch(64), ch(1)>> \o EncodeToString(SubSeq(b, 4, Len(b)))

\* forwardTunnel, lines 640-643
basicAuth == <<"B", "a", "s", "i", "c", " ">> \o EncodeToString(Bytes(Username \o <<":">> \o Password))

\* A CONNECT request that carries the Proxy-Authorization header whatever the
\* parent proxy's URL.
connectReq_Always(u, orig) ==
    [to |-> "targetConn", method |-> "CONNECT",
     header |-> HeaderAdd(EmptyHeader, HProxyAuthorization, basicAuth),
     orig |-> orig, host |-> ctx.Req.urlHost]

\* forwardTunnel, lines 635-645: the CONNECT request for the parent proxy.
connectReq(u, orig) ==
    [to |-> "targetConn", method |-> "CONNECT",
     header |-> IF u.user THEN HeaderAdd(EmptyHeader, HProxyAuthorization, basicAuth) ELSE EmptyHeader,
     orig |-> orig, host |-> ctx.Req.urlHost]

\* forwardTunnel, lines 627-655: without a parent proxy the 200 line is written
\* to the client; with one a CONNECT request is written to it.
TunnelEstablish ==
    /\ pc = "tun.establish"
    /\ \E ok \in BOOLEAN :
          IF ~loc.parent.set
          THEN /\ toClient' = IF ok
                              THEN Append(toClient, Out("clientConn", tunnelEstablishedResponseLine, EmptyHeader))
                              ELSE toClient
               /\ ctx' = IF ok THEN ctx ELSE SetContextErrType(ctx, "TunnelWriteEstRespFail")
               /\ pc' = IF ok THEN "transfer" ELSE "unwind"
               /\ UNCHANGED sent
          ELSE /\ sent' = IF ok THEN Append(sent, connectReq(loc.parent, ctx.Req.header)) ELSE sent
               /\ toClient' = IF ok THEN toClient
                              ELSE toClient \o WriteProxyErrorToResponseBody("clientConn", TRUE)
               /\ ctx' = IF ok THEN ctx ELSE SetContextErrType(ctx, "TunnelConnectRemoteFail")
               /\ pc' = IF ok THEN "transfer" ELSE "unwind"
    /\ UNCHANGED <<calls, fwd, defers, panicking, loc, res, proxyVars, closeVars, pump>>

(***************************************************************************)
(* serveWebsocket                                                          *)
(***************************************************************************)
\* serveWebsocket, lines 310-314
WSParentProxy ==
    /\ pc = "ws.ParentProxy"
    /\ \E o \in Outcomes, u \in ParentURLs :
          /\ o # "ok" => u = NoParent
          /\ Invoke(o, "ParentProxyFail", "ws.dial")
          /\ loc' = [loc EXCEPT !.parent = u]
    /\ UNCHANGED <<fwd, defers, sent, toClient, res, proxyVars, closeVars, pump>>

\* serveWebsocket, lines 316-331
WSDial ==
    /\ pc = "ws.dial"
    /\ loc' = [loc EXCEPT !.dialAddr = DialAddr(loc.parent, ctx.Req)]
    /\ \E ok \in BOOLEAN :
          /\ ok => CanDial(DialAddr(loc.parent, ctx.Req))
          /\ IF ok
             THEN /\ res' = [res EXCEPT !.target = "open"]
                  /\ defers' = Append(defers, "CloseNetConn(targetConn)")
                  /\ pc' = "ws.hijack"
                  /\ UNCHANGED <<ctx, toClient>>
             ELSE /\ toClient' = Append(toClient, Status502)
                  /\ ctx' = SetContextErrType(ctx, "HTTPWebsocketDailFail")
                  /\ pc' = "unwind"
                  /\ UNCHANGED <<res, defers>>
    /\ UNCHANGED <<calls, fwd, panicking, sent, proxyVars, closeVars, pump>>

\* serveWebsocket, lines 334-346: a response-writer that is no Hijacker makes
\* the handler panic; after a successful hijack the client connection is
\* closed at once (line 346).
WSHijack ==
    /\ pc = "ws.hijack"
    /\ \E how \in {"ok", "error", "no Hijacker"} :
          /\ ctx' = IF how = "ok" THEN [ctx EXCEPT !.Hijack = TRUE]
                    ELSE IF how = "error" THEN SetContextErrType(ctx, "HTTPWebsocketHijackFail")
                    ELSE ctx
          /\ toClient' = IF how = "error" THEN Append(toClient, Status502) ELSE toClient
          /\ res' = [res EXCEPT !.client = IF how = "ok" THEN "closed" ELSE @]
          /\ panicking' = (how = "no Hijacker")
          /\ pc' = IF how = "ok" THEN "hs.writeReq" ELSE "unwind"
    /\ UNCHANGED <<calls, fwd, defers, loc, sent, proxyVars, closeVars, pump>>

(***************************************************************************)
(* serveWebsocketTLS                                                       *)
(***************************************************************************)
\* serveWebsocketTLS, lines 361-365
WSSParentProxy ==
    /\ pc = "wss.ParentProxy"
    /\ \E o \in Outcomes, u \in ParentURLs :
          /\ o # "ok" => u = NoParent
          /\ Invoke(o, "ParentProxyFail", "wss.tlsconfig")
          /\ loc' = [loc EXCEPT !.parent = u]
    /\ UNCHANGED <<fwd, defers, sent, toClient, res, proxyVars, closeVars, pump>>

\* serveWebsocketTLS, lines 367-373
WSSGenerateTLSConfig ==
    /\ pc = "wss.tlsconfig"
    /\ \E ok \in BOOLEAN :
          IF ok
          THEN /\ pc' = "wss.hijack"
               /\ UNCHANGED <<ctx, toClient>>
          ELSE /\ toClient' = Append(toClient, Status502)
               /\ ctx' = SetContextErrType(ctx, "HTTPSWebsocketGenerateTLSConfigFail")
               /\ pc' = "unwind"
    /\ UNCHANGED <<calls, fwd, defers, panicking, loc, sent, res, proxyVars, closeVars, pump>>

\* serveWebsocketTLS, lines 375-383
WSSHijack ==
    /\ pc = "wss.hijack"
    /\ \E ok \in BOOLEAN :
          IF ok
          THEN /\ ctx' = [ctx EXCEPT !.Hijack = TRUE]
               /\ res' = [res EXCEPT !.client = "open"]
               /\ defers' = Append(defers, "clientConn.Close")
               /\ pc' = "wss.write200"
               /\ UNCHANGED toClient
          ELSE /\ toClient' = Append(toClient, Status502)
               /\ ctx' = SetContextErrType(ctx, "HTTPSWebsocketHijackFail")
               /\ pc' = "unwind"
               /\ UNCHANGED <<res, defers>>
    /\ UNCHANGED <<calls, fwd, panicking, loc, sent, proxyVars, closeVars, pump>>

\* serveWebsocketTLS, lines 385-393
WSSWriteEstablished ==
    /\ pc = "wss.write200"
    /\ \E ok \in BOOLEAN :
          IF ok
          THEN /\ toClient' = Append(toClient, Out("clientConn", tunnelEstablishedResponseLine, EmptyHeader))
               /\ defers' = Append(defers, "CloseNetConn(tlsClientConn)")
               /\ pc' = "wss.handshake"
               /\ UNCHANGED ctx
          ELSE /\ ctx' = SetContextErrType(ctx, "HTTPSWebsocketWriteEstRespFail")
               /\ pc' = "unwind"
               /\ UNCHANGED <<toClient, defers>>
    /\ UNCHANGED <<calls, fwd, panicking, loc, sent, res, proxyVars, closeVars, pump>>

\* serveWebsocketTLS, lines 396-400
WSSHandshake ==
    /\ pc = "wss.handshake"
    /\ \E ok \in BOOLEAN :
          IF ok
          THEN /\ loc' = [loc EXCEPT !.tlsReady = TRUE]
               /\ pc' = "wss.readreq"
               /\ UNCHANGED ctx
          ELSE /\ ctx' = SetContextErrType(ctx, "HTTPSWebsocketTLSClientConnHandshakeFail")
               /\ pc' = "unwind"
               /\ UNCHANGED loc
    /\ UNCHANGED <<calls, fwd, defers, panicking, sent, toClient, res, proxyVars, closeVars, pump>>

\* serveWebsocketTLS, lines 403-411: one request is read off the TLS stream.
WSSReadRequest ==
    /\ pc = "wss.readreq"
    /\ \E how \in {"ok", "EOF", "error"}, r \in InnerRequests :
          /\ how # "ok" => r.header = MkHeader(<<>>, <<>>, <<>>, <<>>, <<vOne>>)
          /\ loc' = IF how = "ok" THEN [loc EXCEPT !.wsReq = r] ELSE loc
          /\ ctx' = IF how = "error"
                    THEN SetContextErrType(ctx, "HTTPSWebsocketReadReqFromBufFail")
                    ELSE ctx
          /\ pc' = IF how = "ok" THEN "wss.dial" ELSE "unwind"
    /\ UNCHANGED <<calls, fwd, defers, panicking, sent, toClient, res, proxyVars, closeVars, pump>>

\* serveWebsocketTLS, lines 413-437: the target is dialed with TLS; a failure
\* is answered through the response-writer; on success ctx.Req becomes the
\* request read off the TLS stream.
WSSDial ==
    /\ pc = "wss.dial"
    /\ loc' = [loc EXCEPT !.dialAddr = DialAddr(loc.parent, loc.wsReq)]
    /\ \E ok \in BOOLEAN :
          /\ ok => CanDial(DialAddr(loc.parent, loc.wsReq))
          /\ IF ok
             THEN /\ res' = [res EXCEPT !.target = "open"]
                  /\ defers' = Append(defers, "CloseNetConn(targetConn)")
                  /\ ctx' = [ctx EXCEPT !.Req = [loc.wsReq EXCEPT !.urlHost = loc.wsReq.host]]
                  /\ pc' = "hs.writeReq"
                  /\ UNCHANGED toClient
             ELSE /\ toClient' = Append(toClient, Status502)
                  /\ ctx' = SetContextErrType(ctx, "HTTPSWebsocketDailFail")
                  /\ pc' = "unwind"
                  /\ UNCHANGED <<res, defers>>
    /\ UNCHANGED <<calls, fwd, panicking, sent, proxyVars, closeVars, pump>>

(***************************************************************************)
(* websocketHandshake and transfer, as the forwarders use them             *)
(***************************************************************************)
\* The error kind a failed handshake is recorded as (lines 351 and 442).
HandshakeFail == IF Last(fwd) = "forwardHTTPWebsocket"
                 THEN "HTTPWebsocketHandshakeFail" ELSE "HTTPSWebsocketHandshakeFail"

\* websocketHandshake, lines 283-287: the request is written to the target.
HandshakeWriteRequest ==
    /\ pc = "hs.writeReq"
    /\ \E ok \in BOOLEAN :
          /\ sent' = IF ok
                     THEN Append(sent, Sent("targetConn", ctx.Req.method, WireHeader(ctx.Req.header), ctx.Req.header))
                     ELSE sent
          /\ ctx' = IF ok THEN ctx ELSE SetContextErrType(ctx, HandshakeFail)
          /\ pc' = IF ok THEN "hs.readResp" ELSE "unwind"
    /\ UNCHANGED <<calls, fwd, defers, panicking, loc, toClient, res, proxyVars, closeVars, pump>>

\* The headers of the handshake responses a target may give.
HandshakeHeaders ==
    {MkHeader(<<sUpgrade>>, <<sWebsocket>>, <<>>, <<>>, <<vOne>>),
     MkHeader(<<>>, <<>>, <<>>, <<>>, <<vOne>>)}

\* websocketHandshake, lines 289-296: the target's response is read.
HandshakeReadResponse ==
    /\ pc = "hs.readResp"
    /\ \E ok \in BOOLEAN, h \in HandshakeHeaders :
          /\ ~ok => h = MkHeader(<<>>, <<>>, <<>>, <<>>, <<vOne>>)
          /\ loc' = IF ok THEN [loc EXCEPT !.resp = [err |-> FALSE, header |-> h, raw |-> h]] ELSE loc
          /\ ctx' = IF ok THEN ctx ELSE SetContextErrType(ctx, HandshakeFail)
          /\ pc' = IF ok THEN "hs.writeResp" ELSE "unwind"
    /\ UNCHANGED <<calls, fwd, defers, panicking, sent, toClient, res, proxyVars, closeVars, pump>>

\* websocketHandshake, lines 300-306: the response is written to clientConn,
\* the hijacked socket; a write to a closed connection fails.
HandshakeWriteResponse ==
    /\ pc = "hs.writeResp"
    /\ \E good \in BOOLEAN :
          LET ok == good /\ res.client = "open"
          IN  /\ toClient' = IF ok
                             THEN Append(toClient, Relay("clientConn", WireHeader(loc.resp.header), loc.resp.raw))
                             ELSE toClient
              /\ ctx' = IF ok THEN ctx ELSE SetContextErrType(ctx, HandshakeFail)
              /\ pc' = IF ok THEN "transfer" ELSE "unwind"
    /\ UNCHANGED <<calls, fwd, defers, panicking, loc, sent, res, proxyVars, closeVars, pump>>

\* transfer, lines 661-669, as a forwarder sees it: the two copies run to
\* their ends and both connections are closed.
Transfer ==
    /\ pc = "transfer"
    /\ res' = [res EXCEPT !.client = "closed", !.target = "closed"]
    /\ \E failed \in BOOLEAN :
          ctx' = IF failed THEN SetContextErrType(ctx, "TunnelWriteConnFail") ELSE ctx
    /\ pc' = "unwind"
    /\ UNCHANGED <<calls, fwd, defers, panicking, loc, sent, toClient, proxyVars, closeVars, pump>>

(***************************************************************************)
(* Returning: the deferred calls run, the last registered first            *)
(***************************************************************************)
\* What is left of the stack of deferred calls once its top has run, and where
\* the handler is then.
Popped == SubSeq(defers, 1, Len(defers) - 1)
AfterDeferred == IF Len(defers) = 1 THEN "returned" ELSE "unwind"

\* ServeHTTP, line 117: defer p.delegate.Finish(ctx, rw)
DeferredFinish ==
    /\ pc = "unwind" /\ defers # <<>> /\ Last(defers) = "Finish"
    /\ \E o \in {"ok", "panic"} :
          /\ calls' = Append(calls, Called("Finish", ctx.abort, o = "panic"))
          /\ panicking' = (panicking \/ o = "panic")
    /\ defers' = Popped
    /\ pc' = AfterDeferred
    /\ UNCHANGED <<ctx, fwd, loc, sent, toClient, res, proxyVars, closeVars, pump>>

\* ServeHTTP, lines 105-107: the deferred decrement of the counter.
DeferredDecrement ==
    /\ pc = "unwind" /\ defers # <<>> /\ Last(defers) = "clientConnNum-1"
    /\ clientConnNum' = AddInt32(clientConnNum, -1)
    /\ defers' = Popped
    /\ pc' = AfterDeferred
    /\ UNCHANGED <<ctx, calls, fwd, panicking, loc, sent, toClient, res, bg, tr, lengthWriter, closeVars, pump>>

\* defer clientConn.Close() of forwardHTTPS, forwardTunnel and serveWebsocketTLS
\* (lines 534, 600 and 383).
DeferredClientClose ==
    /\ pc = "unwind" /\ defers # <<>> /\ Last(defers) = "clientConn.Close"
    /\ res' = [res EXCEPT !.client = "closed"]
    /\ defers' = Popped
    /\ pc' = AfterDeferred
    /\ UNCHANGED <<ctx, calls, fwd, panicking, loc, sent, toClient, proxyVars, closeVars, pump>>

\* CloseResponseBody and CloseNetConn, lines 758-777: whether the call goes on
\* to Close its argument, given ctx.Closed.
ClosesArgument(closed) == ~closed

\* The resource a deferred guarded close is given.
ArgumentOf(d) ==
    CASE d = "CloseResponseBody" -> "body"
      [] d = "CloseNetConn(targetConn)" -> "target"
      [] d = "CloseNetConn(tlsClientConn)" -> "client"

\* A deferred CloseResponseBody or CloseNetConn (lines 499, 571, 331, 393, 431,
\* 544 and 623); closing the TLS connection closes the socket under it.
DeferredGuardedClose ==
    /\ pc = "unwind" /\ defers # <<>>
    /\ Last(defers) \in {"CloseResponseBody", "CloseNetConn(targetConn)", "CloseNetConn(tlsClientConn)"}
    /\ IF ClosesArgument(ctx.Closed)
       THEN /\ res' = [res EXCEPT ![ArgumentOf(Last(defers))] = "closed"]
            /\ ctx' = [ctx EXCEPT !.Closed = TRUE]
       ELSE UNCHANGED <<res, ctx>>
    /\ defers' = Popped
    /\ pc' = AfterDeferred
    /\ UNCHANGED <<calls, fwd, panicking, loc, sent, toClient, proxyVars, closeVars, pump>>

(***************************************************************************)
(* The other ServeHTTP calls                                               *)
(***************************************************************************)
\* ServeHTTP, line 104, in another call: it enters.
BgEnter(b) ==
    /\ bg[b] = "idle"
    /\ clientConnNum' = AddInt32(clientConnNum, 1)
    /\ bg' = [bg EXCEPT ![b] = "serving"]
    /\ UNCHANGED <<handlerVars, tr, lengthWriter, closeVars, pump>>

\* ServeHTTP, lines 105-107, in another call: it returns or panics.
BgReturn(b) ==
    /\ bg[b] = "serving"
    /\ clientConnNum' = AddInt32(clientConnNum, -1)
    /\ bg' = [bg EXCEPT ![b] = "idle"]
    /\ UNCHANGED <<handlerVars, tr, lengthWriter, closeVars, pump>>

\* ClientConnNum: atomic.LoadInt32 of the counter.
ClientConnNum == clientConnNum

(***************************************************************************)
(* CloseResponseBody and CloseNetConn, called concurrently on one context  *)
(***************************************************************************)
Closers == 1..NumClosers

\* What a caller hands to CloseResponseBody (a response's body) or to
\* CloseNetConn (the target connection, the client's TLS connection).
CloseCalls ==
    {[fn |-> "CloseResponseBody", arg |-> "body"],
     [fn |-> "CloseNetConn", arg |-> "target"],
     [fn |-> "CloseNetConn", arg |-> "client"]}
Resources == {"body", "target", "client"}

\* A caller outside the two functions, after made calls; inside one, found is
\* what its test of ctx.Closed read.
NoCall == [fn |-> "none", arg |-> "none"]
Idle(made) == [pc |-> "idle", call |-> NoCall, made |-> made, found |-> FALSE]

\* ctx.Lock (its holder, 0 for none), ctx.Closed, and the history of the
\* context: how often Closed went from false to true, the Close calls made on
\* each resource, and whether every call that found Closed set left it at that.
NewGuard ==
    [Lock |-> 0, Closed |-> FALSE, set |-> 0,
     closes |-> [r \in Resources |-> 0], noop |-> TRUE]

\* A Lock that never waits.
LockFree_Always(holder) == TRUE

\* sync.Mutex.Lock returns once no one holds the mutex.
LockFree(holder) == holder = 0

\* A caller calls CloseResponseBody or CloseNetConn.
CloseCall(c) ==
    /\ closer[c].pc = "idle" /\ closer[c].made < MaxCloseCalls
    /\ \E k \in CloseCalls :
          closer' = [closer EXCEPT ![c] = [pc |-> "Lock", call |-> k,
                                            made |-> closer[c].made + 1, found |-> FALSE]]
    /\ UNCHANGED <<guard, handlerVars, proxyVars, pump>>

\* Lines 759 and 770: ctx.Lock.Lock()
CloseLock(c) ==
    /\ closer[c].pc = "Lock" /\ LockFree(guard.Lock)
    /\ guard' = [guard EXCEPT !.Lock = c]
    /\ closer' = [closer EXCEPT ![c].pc = "check"]
    /\ UNCHANGED <<handlerVars, proxyVars, pump>>

\* Lines 761-763 and 772-774: if ctx.Closed { return }
CloseCheck(c) ==
    /\ closer[c].pc = "check"
    /\ closer' = [closer EXCEPT ![c].found = guard.Closed,
                                ![c].pc = IF ClosesArgument(guard.Closed) THEN "Close" ELSE "Unlock"]
    /\ UNCHANGED <<guard, handlerVars, proxyVars, pump>>

\* Lines 764 and 775: r.Body.Close(), conn.Close()
CloseArgument(c) ==
    /\ closer[c].pc = "Close"
    /\ guard' = [guard EXCEPT !.closes[closer[c].call.arg] = @ + 1,
                              !.noop = @ /\ ~closer[c].found]
    /\ closer' = [closer EXCEPT ![c].pc = "set"]
    /\ UNCHANGED <<handlerVars, proxyVars, pump>>

\* Lines 765 and 776: ctx.Closed = true
CloseSetClosed(c) ==
    /\ closer[c].pc = "set"
    /\ guard' = [guard EXCEPT !.Closed = TRUE,
                              !.set = IF guard.Closed THEN @ ELSE @ + 1,
                              !.noop = @ /\ ~closer[c].found]
    /\ closer' = [closer EXCEPT ![c].pc = "Unlock"]
    /\ UNCHANGED <<handlerVars, proxyVars, pump>>

\* Lines 760 and 771: the deferred ctx.Lock.Unlock()
CloseUnlock(c) ==
    /\ closer[c].pc = "Unlock"
    /\ guard' = [guard EXCEPT !.Lock = 0]
    /\ closer' = [closer EXCEPT ![c] = Idle(closer[c].made)]
    /\ UNCHANGED <<handlerVars, proxyVars, pump>>

InitClose ==
    /\ closer = [c \in Closers |-> Idle(0)]
    /\ guard = NewGuard

(***************************************************************************)
(* transfer and copyOrWarn: the byte pump                                  *)
(***************************************************************************)
\* The two copies of transfer(ctx, clientConn, targetConn): "up" reads the
\* client and writes the target, "down" reads the target and writes the client.
Dirs == {"up", "down"}

\* The two fields exchanged.
LengthOf_Swapped(d) == IF d = "up" THEN "RespLength" ELSE "ReqLength"

\* transfer, lines 664-665: the field of ctx each copy is given for its count.
LengthOf(d) == IF d = "up" THEN "ReqLength" ELSE "RespLength"

\* One copy: its position in io.Copy's loop, the result of its last Read (nr,
\* er), io.Copy's results so far (written, err), and its history: the bytes it
\* has read from its source, the bytes it has written to its destination, and
\* whether a Write failed or fell short.
NewCopy ==
    [pc |-> "go", nr |-> 0, er |-> "nil", written |-> 0, err |-> FALSE,
     read |-> 0, wrote |-> 0, wfail |-> FALSE]

\* The pump before transfer is called; ReqLength and RespLength as ServeHTTP
\* makes them (lines 113-114). quiet says that the target has stopped sending
\* and keeps its connection open: a Read of it does not return.
NoPump ==
    [pc |-> "idle", wg |-> 0, ReqLength |-> 0, RespLength |-> 0, errType |-> "",
     client |-> "open", target |-> "open", quiet |-> FALSE,
     copy |-> [d \in Dirs |-> NewCopy]]

\* How a Read may end: with no error, at the end of the stream, with an error.
ReadErrs == {"nil", "EOF", "error"}

\* transfer, lines 662-665: wg.Add(2) and the two go statements.
TransferCall ==
    /\ pump.pc = "idle"
    /\ pump' = [pump EXCEPT !.pc = "Wait", !.wg = 2,
                            !.copy = [d \in Dirs |-> [NewCopy EXCEPT !.pc = "Read"]]]
    /\ UNCHANGED <<handlerVars, proxyVars, closeVars>>

\* io.Copy's loop, the end of an iteration: a Read error other than EOF is the
\* copy's error, and any Read error ends the loop.
AfterRead(cp) ==
    IF cp.er = "nil"
    THEN [cp EXCEPT !.pc = "Read"]
    ELSE [cp EXCEPT !.pc = "Store", !.err = (cp.er = "error")]

\* The target stops sending and keeps its connection open. No deadline is set
\* on either connection (lines 625-626 are comments), so from then on a Read of
\* the target blocks.
TargetFallsSilent ==
    /\ pump.pc = "Wait" /\ ~pump.quiet
    /\ pump' = [pump EXCEPT !.quiet = TRUE]
    /\ UNCHANGED <<handlerVars, proxyVars, closeVars>>

\* copyOrWarn, line 672, io.Copy: nr, er := src.Read(buf). The source gives at
\* most MaxBytes bytes in all; a Read gives some bytes or an error, and a Read
\* of a target that has fallen silent does not return.
CopyRead(d) ==
    /\ pump.pc = "Wait" /\ pump.copy[d].pc = "Read"
    /\ d = "down" => ~pump.quiet
    /\ \E nr \in 0..(MaxBytes - pump.copy[d].read), er \in ReadErrs :
          /\ nr > 0 \/ er # "nil"
          /\ LET cp == [pump.copy[d] EXCEPT !.nr = nr, !.er = er, !.read = @ + nr]
             IN  pump' = [pump EXCEPT !.copy[d] = IF nr > 0 THEN [cp EXCEPT !.pc = "Write"]
                                                            ELSE AfterRead(cp)]
    /\ UNCHANGED <<handlerVars, proxyVars, closeVars>>

\* copyOrWarn, line 672, io.Copy: nw, ew := dst.Write(buf[0:nr]); written += nw;
\* a Write error or a short Write ends the loop.
CopyWrite(d) ==
    /\ pump.pc = "Wait" /\ pump.copy[d].pc = "Write"
    /\ \E nw \in 0..pump.copy[d].nr, ew \in BOOLEAN :
          LET cp == [pump.copy[d] EXCEPT !.written = @ + nw, !.wrote = @ + nw]
          IN  pump' = [pump EXCEPT !.copy[d] =
                          IF ew \/ nw # cp.nr
                          THEN [cp EXCEPT !.pc = "Store", !.err = TRUE, !.wfail = TRUE]
                          ELSE AfterRead(cp)]
    /\ UNCHANGED <<handlerVars, proxyVars, closeVars>>

\* copyOrWarn, lines 673-678: the error is recorded, *len = written, wg.Done().
CopyStore(d) ==
    /\ pump.pc = "Wait" /\ pump.copy[d].pc = "Store"
    /\ pump' = [pump EXCEPT ![LengthOf(d)] = pump.copy[d].written,
                            !.errType = IF pump.copy[d].err THEN "TunnelWriteConnFail" ELSE @,
                            !.wg = @ - 1,
                            !.copy[d].pc = "done"]
    /\ UNCHANGED <<handlerVars, proxyVars, closeVars>>

\* A Wait that returns as soon as one of the two copies is done.
WaitGroupDone_Any(wg) == wg < 2

\* transfer, line 666: wg.Wait() returns once the counter is zero.
WaitGroupDone(wg) == wg = 0

\* transfer, lines 666-668: wg.Wait() returns, src.Close(), dst.Close().
TransferReturn ==
    /\ pump.pc = "Wait" /\ WaitGroupDone(pump.wg)
    /\ pump' = [pump EXCEPT !.pc = "returned", !.client = "closed", !.target = "closed"]
    /\ UNCHANGED <<handlerVars, proxyVars, closeVars>>

(***************************************************************************)
(* DoRequest and the shared transport's Proxy function                     *)
(***************************************************************************)
\* The concurrent DoRequest calls on one Proxy.
DoRequests == 1..NumCalls

\* Errors: none, the one ParentProxy returned to a call, the one RoundTrip
\* returned to a call for another reason than the proxy resolution.
ErrNil == <<"nil", 0>>
ParentProxyErr(k) == <<"ParentProxy", k>>
UpstreamErr(k) == <<"RoundTrip", k>>

\* The parent proxies delegate.ParentProxy may name: none (nil) or a URL.
ProxyURLs == {"nil", "http://parent-a", "http://parent-b"}

\* One DoRequest call: its position; parentProxyURL, which is also the value
\* under pkey in its request's context (line 203); its variable err (line 190,
\* assigned at 192/194 and again at 244); what ParentProxy returned as error;
\* and what the transport's Proxy function returned for its request.
NewDoRequest ==
    [pc |-> "ParentProxy", parentProxyURL |-> "nil", err |-> ErrNil, returned |-> ErrNil,
     pURL |-> "none", perr |-> ErrNil]

\* p.transport as NewProxy leaves it: its Proxy field holds no closure of
\* DoRequest (owner 0).
InitTransport == tr = [Proxy |-> 0, dr |-> [k \in DoRequests |-> NewDoRequest]]

\* DoRequest, lines 189-204: ParentProxy returns a URL and an error into the
\* call's parentProxyURL and err; an abort ends the call; otherwise the URL is
\* put in the request's context.
DoRequestParentProxy(k) ==
    /\ tr.dr[k].pc = "ParentProxy"
    /\ \E u \in ProxyURLs, e \in {ErrNil, ParentProxyErr(k)}, abort \in BOOLEAN :
          tr' = [tr EXCEPT !.dr[k] = [@ EXCEPT !.parentProxyURL = u, !.err = e, !.returned = e,
                                               !.pc = IF abort THEN "done" ELSE "SetProxy"]]
    /\ UNCHANGED <<handlerVars, clientConnNum, bg, lengthWriter, closeVars, pump>>

\* DoRequest, lines 213 and 225-242: tr := p.transport; tr.Proxy = func ...,
\* a closure over this call's pkey and err.
DoRequestSetProxy(k) ==
    /\ tr.dr[k].pc = "SetProxy"
    /\ tr' = [tr EXCEPT !.Proxy = k, !.dr[k].pc = "RoundTrip"]
    /\ UNCHANGED <<handlerVars, clientConnNum, bg, lengthWriter, closeVars, pump>>

\* What the closure of call o returns for the request of call k (lines
\* 226-241): the value under pkey in the request's context, CtxKey being the
\* same type in every call, and the current value of o's variable err.
ProxyFunc(o, k) == <<tr.dr[k].parentProxyURL, tr.dr[o].err>>

\* DoRequest, line 244, inside tr.RoundTrip(newReq): the transport calls the
\* function its Proxy field holds at that moment.
DoRequestResolve(k) ==
    /\ tr.dr[k].pc = "RoundTrip"
    /\ tr' = [tr EXCEPT !.dr[k] = [@ EXCEPT !.pURL = ProxyFunc(tr.Proxy, k)[1],
                                             !.perr = ProxyFunc(tr.Proxy, k)[2],
                                             !.pc = "Return"]]
    /\ UNCHANGED <<handlerVars, clientConnNum, bg, lengthWriter, closeVars, pump>>

\* DoRequest, line 244: resp, err := tr.RoundTrip(newReq) assigns the call's
\* variable err; RoundTrip fails with the error the Proxy function returned if
\* there is one, and otherwise succeeds or fails upstream.
DoRequestRoundTripReturn(k) ==
    /\ tr.dr[k].pc = "Return"
    /\ \E e \in {ErrNil, UpstreamErr(k)} :
          tr' = [tr EXCEPT !.dr[k] = [@ EXCEPT !.err = IF tr.dr[k].perr # ErrNil
                                                       THEN tr.dr[k].perr ELSE e,
                                               !.pc = "done"]]
    /\ UNCHANGED <<handlerVars, clientConnNum, bg, lengthWriter, closeVars, pump>>

NextProxy ==
    \E k \in DoRequests :
        \/ DoRequestParentProxy(k)
        \/ DoRequestSetProxy(k)
        \/ DoRequestResolve(k)
        \/ DoRequestRoundTripReturn(k)

(***************************************************************************)
(* WriterWithLength                                                        *)
(***************************************************************************)
\* What the field writer may hold: an http.ResponseWriter, which is an
\* io.Writer too, or a value that is an io.Writer only (a connection).
WriterKinds == {"http.ResponseWriter", "io.Writer"}

\* Write, lines 18 and 26: the type assertion on w.writer.
AssertionHolds(interfaceType, kind) ==
    IF interfaceType = 0 THEN kind = "http.ResponseWriter" ELSE TRUE

\* A tally that leaves out the bytes of a Write that returned an error.
Tally_OnSuccess(length, n, err) == IF err THEN length ELSE length + n

\* Write, lines 23 and 31: w.length += n
Tally(length, n, err) == length + n

\* A WriterWithLength as a composite literal makes it (line 574 of
\* part_000 is &WriterWithLength{tlsClientConn, 1, 0}), with the record of the
\* calls made on it: the number of Writes, what the underlying writer returned
\* to the last one and their sum, what the last Write returned, whether a
\* Write panicked, and what the last Length() returned.
NewWriterWithLength(kind, interfaceType, length) ==
    [writer |-> kind, interfaceType |-> interfaceType, length |-> length,
     initial |-> length, writes |-> 0, sum |-> 0,
     under |-> <<0, FALSE>>, ret |-> <<0, FALSE>>, panicked |-> FALSE,
     op |-> "new", got |-> 0]

\* Write, lines 15-34, on a buffer of up to MaxBytes bytes: the underlying
\* writer takes n of them and returns n and an error or none; a failed type
\* assertion panics before anything is written.
Write ==
    /\ lengthWriter.writes < MaxWrites /\ ~lengthWriter.panicked
    /\ \E len \in 0..MaxBytes :
          IF ~AssertionHolds(lengthWriter.interfaceType, lengthWriter.writer)
          THEN lengthWriter' = [lengthWriter EXCEPT !.panicked = TRUE, !.op = "Write"]
          ELSE \E n \in 0..len, err \in BOOLEAN :
                  lengthWriter' = [lengthWriter EXCEPT
                                         !.length = Tally(@, n, err),
                                         !.writes = @ + 1,
                                         !.sum = @ + n,
                                         !.under = <<n, err>>,
                                         !.ret = <<n, err>>,
                                         !.op = "Write"]
    /\ UNCHANGED <<handlerVars, clientConnNum, bg, tr, closeVars, pump>>

\* Length, lines 37-39
Length ==
    /\ ~lengthWriter.panicked /\ lengthWriter.op # "Length"
    /\ lengthWriter' = [lengthWriter EXCEPT !.got = lengthWriter.length, !.op = "Length"]
    /\ UNCHANGED <<handlerVars, clientConnNum, bg, tr, closeVars, pump>>

NextWriter == Write \/ Length

(***************************************************************************)
(* The handler's specification                                             *)
(***************************************************************************)
InitHandler ==
    /\ pc = "idle"
    /\ ctx = NewContext(NoReq)
    /\ calls = <<>>
    /\ fwd = <<>>
    /\ defers = <<>>
    /\ panicking = FALSE
    /\ loc = NoLoc
    /\ sent = <<>>
    /\ toClient = <<>>
    /\ res = NoRes
    /\ clientConnNum = 0
    /\ bg = [b \in Bgs |-> "idle"]

Init ==
    /\ InitHandler /\ InitClose /\ InitTransport /\ pump = NoPump
    /\ lengthWriter = NewWriterWithLength("io.Writer", 1, 0)

\* The writers of every kind, tag and initial length, nothing else started.
InitWriter ==
    /\ InitHandler /\ InitClose /\ InitTransport /\ pump = NoPump
    /\ lengthWriter \in {NewWriterWithLength(k, t, l) : k \in WriterKinds, t \in {0, 1}, l \in 0..1}

Next ==
    \/ ServeHTTP_Enter \/ Connect \/ Auth \/ Dispatch
    \/ BeforeRequest \/ ParentProxy \/ RoundTrip \/ BeforeResponse
    \/ HTTPContinuation \/ HTTPWriteResponse
    \/ HTTPSGenerateTLSConfig \/ HTTPSHijack \/ HTTPSWriteEstablished \/ HTTPSHandshake
    \/ HTTPSReadRequest \/ HTTPSContinuation \/ HTTPSWriteResponse
    \/ TunnelParentProxy \/ TunnelHijack \/ TunnelDial \/ TunnelBeforeResponse
    \/ TunnelDialed \/ TunnelDuringResponse \/ TunnelEstablish
    \/ WSParentProxy \/ WSDial \/ WSHijack
    \/ WSSParentProxy \/ WSSGenerateTLSConfig \/ WSSHijack \/ WSSWriteEstablished
    \/ WSSHandshake \/ WSSReadRequest \/ WSSDial
    \/ HandshakeWriteRequest \/ HandshakeReadResponse \/ HandshakeWriteResponse \/ Transfer
    \/ DeferredFinish \/ DeferredDecrement \/ DeferredClientClose \/ DeferredGuardedClose
    \/ \E b \in Bgs : BgEnter(b) \/ BgReturn(b)

Spec == Init /\ [][Next]_vars

(***************************************************************************)
(* Properties of the handler                                               *)
(***************************************************************************)
Stages == <<"Connect", "Auth", "BeforeRequest", "ParentProxy", "BeforeResponse",
            "DuringResponse", "Finish">>
StageOf(cb) == CHOOSE i \in 1..Len(Stages) : Stages[i] = cb
FinishCount == Cardinality({i \in 1..Len(calls) : calls[i].cb = "Finish"})

\* C1: delegate.Finish is invoked at most once, nothing is invoked after it,
\* and when ServeHTTP has returned, by whatever path (an abort, a forwarder's
\* return, a panic), it has been invoked exactly once.
C1_FinishOnceAndLast ==
    /\ FinishCount <= 1
    /\ FinishCount = 1 => Last(calls).cb = "Finish"
    /\ pc = "returned" => FinishCount = 1

\* C1 witness: a forwarder panicked after it had dialed the target, and
\* ServeHTTP has returned with Finish as its last callback.
C1_Witness ==
    /\ pc = "returned" /\ panicking /\ fwd # <<>> /\ res.target # "none"
    /\ ~Last(calls).panic /\ Last(calls).cb = "Finish"

\* C2: after a callback of the stages Connect .. BeforeResponse has left
\* ctx.abort set, the only callback invoked is Finish.
C2_AbortStopsCallbacks ==
    \A i \in 1..Len(calls) : \A j \in 1..Len(calls) :
        (i < j /\ calls[i].abort /\ StageOf(calls[i].cb) <= 5) => calls[j].cb = "Finish"

\* C2 witness: BeforeResponse aborted in the opaque tunnel, and ServeHTTP has
\* returned with Finish as the next and last callback.
C2_Witness ==
    /\ pc = "returned" /\ Len(calls) >= 2
    /\ calls[Len(calls) - 1].cb = "BeforeResponse" /\ calls[Len(calls) - 1].abort
    /\ Last(calls).cb = "Finish"
    /\ Last(fwd) = "forwardTunnel"

\* C3: the callbacks invoked are in the order Connect, Auth, BeforeRequest,
\* ParentProxy, BeforeResponse, DuringResponse, Finish, each at most once.
C3_CallbackOrder ==
    \A i \in 1..Len(calls) : \A j \in 1..Len(calls) :
        i < j => StageOf(calls[i].cb) < StageOf(calls[j].cb)

\* C3 witness: a request of the MITM HTTPS forwarder went through all seven
\* callbacks.
C3_Witness ==
    /\ pc = "returned" /\ Len(calls) = 7 /\ fwd = <<"forwardHTTPS">>

\* The claim's own reading of a header: the fields of every line stored under
\* the key, trimmed and in lower case.
Lower(s) == [i \in 1..Len(s) |-> ToLowerCh(s[i])]
TokensOf(h, key) ==
    UNION {{Lower(TrimSpace(Split(h[key][i], ",")[j])) :
               j \in 1..Len(Split(h[key][i], ","))} : i \in 1..Len(h[key])}
IsWebSocket(r) ==
    /\ sUpgrade \in TokensOf(r.header, HConnection)
    /\ sWebsocket \in TokensOf(r.header, HUpgrade)
IsMitmEnabled(r) == r.header[HMitm] # <<>> /\ r.header[HMitm][1] = sEnabled
ForwarderTable(r) ==
    CASE r.method = "CONNECT" /\ IsMitmEnabled(r) /\ ~IsWebSocket(r) -> "forwardHTTPS"
      [] r.method = "CONNECT" /\ IsMitmEnabled(r) /\ IsWebSocket(r) -> "forwardHTTPSWebsocket"
      [] r.method = "CONNECT" /\ ~IsMitmEnabled(r) -> "forwardTunnel"
      [] r.method # "CONNECT" /\ ~IsWebSocket(r) -> "forwardHTTP"
      [] r.method # "CONNECT" /\ IsWebSocket(r) -> "forwardHTTPWebsocket"
AuthPassed == Len(calls) >= 2 /\ calls[2].cb = "Auth" /\ ~calls[2].abort /\ ~calls[2].panic

\* C4: a request that Connect and Auth let pass is handed to exactly one
\* forwarder, the one the routing table gives for its method, its MITM header
\* and its WebSocket headers; an aborted request is handed to none; ctx.MITM is
\* set only for a CONNECT request.
C4_Dispatch ==
    /\ Len(fwd) <= 1
    /\ fwd # <<>> => AuthPassed /\ fwd[1] = ForwarderTable(loc.req)
    /\ (AuthPassed /\ pc # "dispatch") => Len(fwd) = 1
    /\ ctx.MITM => loc.req.method = "CONNECT"

\* C4 witness: a CONNECT request with WebSocket headers whose MITM header is
\* not exactly Enabled has gone to the opaque tunnel.
C4_Witness ==
    /\ fwd = <<"forwardTunnel">> /\ IsWebSocket(loc.req)
    /\ loc.req.header[HMitm] = <<vEnabledLower>>
    /\ loc.req.header[HConnection] = <<vClose, vUpgradeXFoo>>

\* C5: no request sent upstream and no response returned to the client carries
\* a hop-by-hop header, whatever its value.
C5_NoHopByHopHeaders ==
    /\ \A i \in 1..Len(sent) :
          \A n \in 1..Len(hopHeaders) : sent[i].header[hopHeaders[n]] = <<>>
    /\ \A i \in 1..Len(toClient) :
          toClient[i].kind = "response" =>
              \A n \in 1..Len(hopHeaders) : toClient[i].header[hopHeaders[n]] = <<>>

\* The header keys named by the tokens of a header's Connection lines.
ConnectionListed(h) ==
    {k \in HeaderKeys : Lower(k) \in TokensOf(h, HConnection)}

\* C6: a header named by a token of any Connection line of the client's
\* request is absent from the request sent upstream, and a header named by a
\* token of any Connection line of the upstream's response is absent from the
\* response returned to the client.
C6_ConnectionTokensStripped ==
    /\ \A i \in 1..Len(sent) :
          \A k \in ConnectionListed(sent[i].orig) : sent[i].header[k] = <<>>
    /\ \A i \in 1..Len(toClient) :
          toClient[i].kind = "response" =>
              \A k \in ConnectionListed(toClient[i].orig) : toClient[i].header[k] = <<>>

\* C7: no request written to an upstream server or a parent proxy carries the
\* MITM header, whatever its value.
C7_NoMitmHeaderUpstream ==
    \A i \in 1..Len(sent) : sent[i].header[HMitm] = <<>>

\* The calls of ServeHTTP that have entered and not yet returned.
InFlight ==
    (IF pc \in {"idle", "returned"} THEN 0 ELSE 1)
        + Cardinality({b \in Bgs : bg[b] = "serving"})

\* C8: ClientConnNum() is the number of ServeHTTP calls in flight, is never
\* negative, and is zero when none is in flight.
C8_ClientConnNum ==
    /\ ClientConnNum = InFlight
    /\ ClientConnNum >= 0
    /\ InFlight = 0 => ClientConnNum = 0

\* C8 witness: the observed call has returned by a panic while every other
\* call is still in flight.
C8_Witness ==
    /\ pc = "returned" /\ panicking
    /\ \A b \in Bgs : bg[b] = "serving"
    /\ ClientConnNum = NumBg

(***************************************************************************)
(* The close guard's specification and properties                          *)
(***************************************************************************)
NextClose ==
    \E c \in Closers :
        \/ CloseCall(c) \/ CloseLock(c) \/ CloseCheck(c)
        \/ CloseArgument(c) \/ CloseSetClosed(c) \/ CloseUnlock(c)

SpecClose == Init /\ [][NextClose]_vars

TotalCloses == guard.closes["body"] + guard.closes["target"] + guard.closes["client"]

\* C9: on one context, however calls of CloseResponseBody and CloseNetConn
\* interleave, ctx.Closed goes from false to true at most once and stays true;
\* a call that finds Closed true makes no Close and changes nothing; and the
\* two functions together make at most one Close.
C9_ClosedOnce ==
    /\ guard.set <= 1
    /\ guard.set = 1 => guard.Closed
    /\ guard.Closed => guard.set = 1
    /\ guard.noop
    /\ TotalCloses <= 1
    /\ \A c \in Closers :
          (closer[c].pc \in {"Close", "set"}) => ~closer[c].found /\ guard.Lock = c

\* C9 witness: a second call, of the other function, found Closed true after
\* the first call's Close and is about to unlock, while another caller waits
\* for the lock.
C9_Witness ==
    /\ guard.Closed /\ guard.closes["body"] = 1 /\ TotalCloses = 1
    /\ \E c \in Closers :
          /\ closer[c].pc = "Unlock" /\ closer[c].found
          /\ closer[c].call.fn = "CloseNetConn"
          /\ \E d \in Closers \ {c} : closer[d].pc = "Lock"

(***************************************************************************)
(* The byte pump's specification and properties                            *)
(***************************************************************************)
\* The steps of transfer and of its two copies.
PumpStep ==
    \/ \E d \in Dirs : CopyRead(d) \/ CopyWrite(d) \/ CopyStore(d)
    \/ TransferReturn

NextPump ==
    \/ TransferCall
    \/ TargetFallsSilent
    \/ \E d \in Dirs : CopyRead(d) \/ CopyWrite(d) \/ CopyStore(d)
    \/ TransferReturn

SpecPump == Init /\ [][NextPump]_vars

\* C10 as stated: when transfer returns, ReqLength is the number of bytes read
\* from the client and RespLength the number of bytes written to the client.
C10_LengthsAsStated ==
    pump.pc = "returned" =>
        /\ pump.ReqLength = pump.copy["up"].read
        /\ pump.RespLength = pump.copy["down"].wrote

\* C10: when transfer returns, ReqLength is the number of bytes written to the
\* target, which is the number of bytes read from the client unless a Write to
\* the target failed or fell short, and is never more; RespLength is the number
\* of bytes written to the client.
C10_LengthsWritten ==
    pump.pc = "returned" =>
        /\ pump.ReqLength = pump.copy["up"].wrote
        /\ pump.ReqLength <= pump.copy["up"].read
        /\ ~pump.copy["up"].wfail => pump.ReqLength = pump.copy["up"].read
        /\ pump.RespLength = pump.copy["down"].wrote

\* C10 witness: transfer has returned after a Write to the target failed with
\* a byte read from the client unwritten, and after the copy to the client
\* ended on a Read error.
C10_Witness ==
    /\ pump.pc = "returned"
    /\ pump.copy["up"].wfail /\ pump.copy["up"].read = MaxBytes
    /\ pump.ReqLength = MaxBytes - 1
    /\ pump.copy["down"].er = "error" /\ pump.RespLength = 1
    /\ pump.copy["down"].read = 1

(***************************************************************************)
(* The forwarders' conversations                                           *)
(***************************************************************************)
\* C11: in a plain (non-CONNECT) WebSocket upgrade whose dial and hijack both
\* succeeded, once the target has received the client's request and answered
\* the handshake, the client connection is still open for the handshake
\* response to be written to it, after which the byte pump runs.
C11_HandshakeReachesClient ==
    (pc = "hs.writeResp" /\ Last(fwd) = "forwardHTTPWebsocket")
        => /\ ctx.Hijack
           /\ res.target = "open"
           /\ Len(sent) = 1 /\ sent[1].to = "targetConn" /\ sent[1].orig = loc.req.header
           /\ res.client = "open"

\* What the code does instead: the plain WebSocket forwarder never gets to the
\* byte pump, and never writes a handshake response to the client.
C11_PlainWebSocketNeverPumps ==
    (fwd # <<>> /\ Last(fwd) = "forwardHTTPWebsocket")
        => /\ pc # "transfer"
           /\ \A i \in 1..Len(toClient) : toClient[i].kind # "response"

\* C12: in the opaque tunnel, once the hijack and the dial have succeeded and
\* BeforeResponse has not aborted, the byte pump starts in one of two ways.
\* Without a parent proxy the proxy has written to the client exactly the line
\* "HTTP/1.1 200 Connection established\r\n\r\n", once, and nothing to the
\* target.  With a parent proxy it has written nothing to the client and, to
\* the parent, one CONNECT request for Req.URL.Host that carries
\* Proxy-Authorization: Basic base64(user:pass) exactly when the parent's URL
\* has user-info.
C12_TunnelEstablished ==
    (pc = "transfer" /\ Last(fwd) = "forwardTunnel")
        => /\ ctx.Hijack /\ res.target = "open"
           /\ \E i \in 1..Len(calls) : calls[i].cb = "BeforeResponse" /\ ~calls[i].abort
           /\ IF ~loc.parent.set
              THEN /\ Len(toClient) = 1
                   /\ toClient[1].via = "clientConn"
                   /\ toClient[1].kind = "HTTP/1.1 200 Connection established\r\n\r\n"
                   /\ sent = <<>>
                   /\ loc.dialAddr = loc.req.urlHost
              ELSE /\ toClient = <<>>
                   /\ Len(sent) = 1
                   /\ sent[1].to = "targetConn" /\ sent[1].method = "CONNECT"
                   /\ sent[1].host = loc.req.urlHost
                   /\ sent[1].header[HProxyAuthorization] =
                          IF loc.parent.user THEN <<vBasic>> ELSE <<>>
                   /\ loc.dialAddr = ParentHost

C12_Witness ==
    /\ pc = "transfer" /\ Last(fwd) = "forwardTunnel"
    /\ loc.parent.set /\ loc.parent.user
    /\ Len(sent) = 1 /\ sent[1].header[HProxyAuthorization] = <<vBasic>>

\* C13: in every forwarder, once ctx.Hijack is true the response-writer rw is
\* never used again: no status and no body is written through it after the
\* hijack.
C13_NoResponseWriterAfterHijack ==
    \A i \in 1..Len(toClient) : toClient[i].via = "rw" => ~toClient[i].hijacked

\* The same for the forwarders other than the MITM WebSocket one.
C13_ElsewhereNoResponseWriterAfterHijack ==
    (fwd # <<>> /\ Last(fwd) # "forwardHTTPSWebsocket") => C13_NoResponseWriterAfterHijack

\* C14: in every forwarding mode, whenever the proxy itself answers the client
\* with status 502, the answer carries the JSON ProxyError body; on a hijacked
\* socket the body is preceded by the prefix "HTTP/1.1 502 "; and an error
\* kind is recorded on the context.
C14_BadGatewayCarriesProxyError ==
    (pc \in {"unwind", "returned"})
        => \A i \in 1..Len(toClient) :
              /\ toClient[i].kind = "status 502"
                    => /\ i < Len(toClient) /\ toClient[i + 1].kind = "ProxyError"
                       /\ ctx.errType # ""
              /\ toClient[i].kind = "HTTP/1.1 502 "
                    => /\ i < Len(toClient) /\ toClient[i + 1].kind = "ProxyError"
                       /\ ctx.errType # ""
              /\ (toClient[i].kind = "ProxyError" /\ toClient[i].hijacked)
                    => i > 1 /\ toClient[i - 1].kind = "HTTP/1.1 502 "

\* The same for the forwarders other than the two WebSocket ones.
C14_ElsewhereBadGatewayCarriesProxyError ==
    (fwd # <<>> /\ Last(fwd) \notin {"forwardHTTPWebsocket", "forwardHTTPSWebsocket"})
        => C14_BadGatewayCarriesProxyError

\* C20: in the MITM WebSocket forwarder the address dialed once the inner
\* request has been read is the parent proxy's host when a parent proxy is
\* set, and otherwise the host of the inner request (its Host field), for every
\* inner request, origin-form requests included.
C20_DialsInnerHost ==
    (pc # "idle" /\ fwd # <<>> /\ Last(fwd) = "forwardHTTPSWebsocket" /\ loc.dialAddr # "none")
        => loc.dialAddr = IF loc.parent.set THEN ParentHost ELSE loc.wsReq.host

\* What the code does: an inner request in absolute form, or a parent proxy,
\* gives the address stated; an inner request in origin form without a parent
\* proxy gives the empty address, and the dial fails.
C20_DialsInnerURLHost ==
    (pc # "idle" /\ fwd # <<>> /\ Last(fwd) = "forwardHTTPSWebsocket" /\ loc.dialAddr # "none")
        => /\ loc.dialAddr = IF loc.parent.set THEN ParentHost ELSE loc.wsReq.urlHost
           /\ loc.dialAddr = "" => pc \in {"unwind", "returned"} /\ ctx.errType = "HTTPSWebsocketDailFail"

(***************************************************************************)
(* The MITM HTTPS forwarder                                                *)
(***************************************************************************)
InHTTPS == pc # "idle" /\ fwd # <<>> /\ Last(fwd) = "forwardHTTPS"
Ended == pc \in {"unwind", "returned"}
Kinds(s) == [i \in 1..Len(s) |-> <<s[i].via, s[i].kind>>]
Line200 == <<"clientConn", tunnelEstablishedResponseLine>>
Answer502 == <<<<"rw", "status 502">>, <<"rw", "ProxyError">>>>
InTLS502 == <<<<"tlsClientConn", "HTTP/1.1 502 ">>, <<"tlsClientConn", "ProxyError">>>>

\* The steps run in the order TLS config, hijack, 200 line, TLS handshake, one
\* inner request, Request Transport: at each step the earlier ones have
\* succeeded and no later one has run.
C19_InOrder ==
    InHTTPS =>
        /\ pc = "https.tlsconfig"
              => ~ctx.Hijack /\ toClient = <<>> /\ ~loc.tlsReady /\ ctx.errType = ""
        /\ pc = "https.hijack"
              => ~ctx.Hijack /\ toClient = <<>> /\ ~loc.tlsReady /\ ctx.errType = ""
        /\ pc = "https.write200"
              => ctx.Hijack /\ toClient = <<>> /\ ~loc.tlsReady /\ ctx.errType = ""
        /\ pc = "https.handshake"
              => ctx.Hijack /\ Kinds(toClient) = <<Line200>> /\ ~loc.tlsReady /\ ctx.errType = ""
        /\ pc \in {"https.tlsconfig", "https.hijack", "https.write200", "https.handshake",
                   "https.readreq"}
              => ctx.Req = loc.req /\ sent = <<>> /\ calls = SubSeq(calls, 1, 2)
        /\ pc = "https.readreq"
              => ctx.Hijack /\ Kinds(toClient) = <<Line200>> /\ loc.tlsReady /\ ctx.errType = ""
        /\ pc \in {"dr.BeforeRequest", "dr.ParentProxy", "dr.RoundTrip", "dr.BeforeResponse",
                   "https.cont", "https.write"}
              => /\ ctx.Hijack /\ loc.tlsReady /\ Kinds(toClient) = <<Line200>>
                 /\ ctx.Req.host = InnerHost /\ ctx.Req.urlHost = InnerHost
        /\ \A i \in 1..Len(toClient) :
              toClient[i].kind = tunnelEstablishedResponseLine
                  => i = 1 /\ toClient[i].hijacked /\ ctx.Hijack
        \* at most one inner request is handed to the transport
        /\ Len(sent) <= 1
        /\ \A i \in 1..Len(sent) :
              /\ sent[i].to = "transport"
              /\ loc.tlsReady /\ toClient # <<>> /\ Kinds(toClient)[1] = Line200

\* The step that fails records its own error kind, and no later step has run.
C19_ErrorKinds ==
    (InHTTPS /\ Ended) =>
        /\ ctx.errType \in {"HTTPSGenerateTLSConfigFail", "HTTPSHijackClientConnFail"}
              => ~ctx.Hijack /\ ~loc.tlsReady /\ sent = <<>> /\ ctx.Req = loc.req
        /\ ctx.errType = "HTTPSWriteEstRespFail"
              => ctx.Hijack /\ toClient = <<>> /\ ~loc.tlsReady /\ sent = <<>> /\ ctx.Req = loc.req
        /\ ctx.errType = "HTTPSTLSClientConnHandshakeFail"
              => /\ ctx.Hijack /\ Kinds(toClient) = <<Line200>> /\ ~loc.tlsReady
                 /\ sent = <<>> /\ ctx.Req = loc.req
        /\ ctx.errType = "HTTPSReadReqFromBufFail"
              => /\ ctx.Hijack /\ Kinds(toClient) = <<Line200>> /\ loc.tlsReady
                 /\ sent = <<>> /\ ctx.Req = loc.req
        \* a failure of an earlier step, or the end of the stream at the inner
        \* read, leaves the request of the CONNECT in place and no other kind
        /\ (ctx.Req = loc.req /\ ~panicking /\ Len(calls) = 2)
              => ctx.errType \in {"HTTPSGenerateTLSConfigFail", "HTTPSHijackClientConnFail",
                                  "HTTPSWriteEstRespFail", "HTTPSTLSClientConnHandshakeFail",
                                  "HTTPSReadReqFromBufFail", ""}
        /\ (ctx.Req = loc.req /\ ctx.errType = "")
              => ctx.Hijack /\ loc.tlsReady /\ Kinds(toClient) = <<Line200>> /\ sent = <<>>

\* An upstream failure after TLS is written inside the TLS stream as the 502
\* prefix and the ProxyError.
C19_UpstreamFailureInTLS ==
    (InHTTPS /\ Ended) =>
        /\ ctx.errType = "HTTPSDoRequestFail"
              => loc.tlsReady /\ Kinds(toClient) = <<Line200>> \o InTLS502
        /\ \A i \in 1..Len(toClient) :
              toClient[i].hijacked /\ i > 1 => toClient[i].via = "tlsClientConn"

\* What the client is given when a step before TLS fails: the 502 answer with
\* the ProxyError through rw when the TLS config or the hijack fails, nothing
\* when the write of the 200 line fails, and nothing after the 200 line when
\* the TLS handshake fails.
C19_AnswersBeforeHijack ==
    (InHTTPS /\ Ended) =>
        /\ ctx.errType \in {"HTTPSGenerateTLSConfigFail", "HTTPSHijackClientConnFail"}
              => Kinds(toClient) = Answer502 /\ \A i \in 1..2 : ~toClient[i].hijacked
        /\ ctx.errType = "HTTPSWriteEstRespFail" => toClient = <<>>
        /\ ctx.errType = "HTTPSTLSClientConnHandshakeFail" => Kinds(toClient) = <<Line200>>

\* As stated: whichever step before TLS fails, the client is given an HTTP
\* response.
C19_AnswersBeforeTLS ==
    (InHTTPS /\ Ended) =>
        (ctx.errType \in {"HTTPSGenerateTLSConfigFail", "HTTPSHijackClientConnFail",
                          "HTTPSWriteEstRespFail", "HTTPSTLSClientConnHandshakeFail"}
            => toClient # <<>>)

\* C19: in the MITM HTTPS forwarder the steps run strictly in order, the first
\* step that fails records its own error kind (none for the end of the stream
\* at the inner read) and no later step runs, the 200 line is written only
\* after the TLS config and the hijack succeeded, an upstream failure after TLS
\* is written inside the TLS stream, at most one inner request is served, and
\* a failure before TLS is answered through rw with 502 and the ProxyError
\* when it is one of the TLS config or of the hijack, and with nothing more
\* when it is one of the write of the 200 line or of the TLS handshake.
C19_MitmSteps ==
    C19_InOrder /\ C19_ErrorKinds /\ C19_UpstreamFailureInTLS /\ C19_AnswersBeforeHijack

\* C19 as stated: the same, with every failure before TLS answered by an HTTP
\* response to the client.
C19_MitmStepsAsStated ==
    C19_InOrder /\ C19_ErrorKinds /\ C19_UpstreamFailureInTLS /\ C19_AnswersBeforeTLS

C19_Witness ==
    /\ InHTTPS /\ pc = "returned"
    /\ ctx.errType = "HTTPSDoRequestFail"
    /\ Kinds(toClient) = <<Line200>> \o InTLS502

C19_WitnessWriteFailed ==
    InHTTPS /\ Ended /\ ctx.errType = "HTTPSWriteEstRespFail" /\ toClient = <<>>

(***************************************************************************)
(* Properties of the byte pump                                             *)
(***************************************************************************)
Other(d) == IF d = "up" THEN "down" ELSE "up"

\* C15: in transfer neither connection is closed before both copies have
\* returned; a copy that ends with an error records TunnelWriteConnFail and
\* leaves the other direction running with both connections open; once both
\* copies have returned and transfer has, both connections are closed.
C15_ClosedAfterBothCopies ==
    /\ (pump.client = "closed" \/ pump.target = "closed")
          => pump.pc = "returned" /\ \A d \in Dirs : pump.copy[d].pc = "done"
    /\ \A d \in Dirs :
          (pump.copy[d].pc = "done" /\ pump.copy[d].err)
              => /\ pump.errType = "TunnelWriteConnFail"
                 /\ pump.copy[Other(d)].pc \in {"Read", "Write", "Store"}
                       => /\ pump.pc = "Wait"
                          /\ pump.client = "open" /\ pump.target = "open"
                          /\ (Other(d) = "up" \/ ~pump.quiet) => ENABLED PumpStep
    /\ pump.pc = "returned"
          => /\ pump.client = "closed" /\ pump.target = "closed"
             /\ \A d \in Dirs : pump.copy[d].pc = "done"
    /\ (pump.pc = "Wait" /\ \A d \in Dirs : pump.copy[d].pc = "done") => ENABLED TransferReturn

\* C15 witness: the copy to the target has ended with an error, which is
\* recorded, while the copy to the client is still writing, both connections
\* open.
C15_Witness ==
    /\ pump.pc = "Wait"
    /\ pump.copy["up"].pc = "done" /\ pump.copy["up"].err
    /\ pump.errType = "TunnelWriteConnFail"
    /\ pump.copy["down"].pc = "Write"
    /\ pump.client = "open" /\ pump.target = "open"

\* C16: if the client disconnects while the pump runs, the pump goes on to
\* close the target connection and transfer returns, even if the target never
\* sends another byte and never closes: as long as transfer has not returned,
\* a step of the pump is possible.
C16_DisconnectEndsPump ==
    (pump.pc = "Wait" /\ pump.copy["up"].pc = "done" /\ pump.copy["up"].er # "nil")
        => ENABLED PumpStep

\* Without a silent target the pump can always go on until transfer returns.
C16_PumpGoesOnUnlessQuiet ==
    (pump.pc = "Wait" /\ ~pump.quiet) => ENABLED PumpStep

\* C17: in transfer(ctx, src, dst), called with the client as src and the
\* target as dst, the number of bytes copied from dst to src (target to client)
\* is what is recorded in ctx.RespLength, and the number of bytes copied from
\* src to dst (client to target) is what is recorded in ctx.ReqLength.
C17_LengthsByDirection ==
    /\ pump.copy["down"].pc = "done" => pump.RespLength = pump.copy["down"].written
    /\ pump.copy["up"].pc = "done" => pump.ReqLength = pump.copy["up"].written

\* C17 as stated: the bytes copied from src to dst are recorded in RespLength
\* and the bytes copied from dst to src in ReqLength.
C17_LengthsByDirectionAsStated ==
    /\ pump.copy["up"].pc = "done" => pump.RespLength = pump.copy["up"].written
    /\ pump.copy["down"].pc = "done" => pump.ReqLength = pump.copy["down"].written

\* C17 witness: transfer has returned with different counts in the two
\* directions.
C17_Witness ==
    /\ pump.pc = "returned"
    /\ pump.copy["up"].written = 2 /\ pump.copy["down"].written = 1
    /\ pump.ReqLength = 2 /\ pump.RespLength = 1

(***************************************************************************)
(* Properties of the shared transport                                      *)
(***************************************************************************)
SpecProxy == Init /\ [][NextProxy]_vars

\* The transport has called its Proxy function for the request of call k.
Resolved(k) == tr.dr[k].pURL # "none"

\* C18: under any interleaving of concurrent DoRequest calls on one Proxy, the
\* parent-proxy resolution made for a request's RoundTrip, the URL and the
\* error, depends only on that request's own context and ParentProxy result:
\* the URL is the one ParentProxy returned to this call and the error is the
\* one ParentProxy returned to this call, whichever call wrote the transport's
\* Proxy function last.
C18_ResolutionIsOwn ==
    \A k \in DoRequests :
        Resolved(k) => /\ tr.dr[k].pURL = tr.dr[k].parentProxyURL
                       /\ tr.dr[k].perr = tr.dr[k].returned

\* What the code gives: the URL is the call's own, and the error is the value
\* of the variable err of some call that has assigned the Proxy function.
C18_URLIsOwn ==
    \A k \in DoRequests :
        Resolved(k) => /\ tr.dr[k].pURL = tr.dr[k].parentProxyURL
                       /\ \E o \in DoRequests :
                             /\ tr.dr[o].pc \in {"RoundTrip", "Return", "done"}
                             /\ tr.dr[k].perr \in {tr.dr[o].returned, UpstreamErr(o)}

(***************************************************************************)
(* Properties of WriterWithLength                                          *)
(***************************************************************************)
SpecWriter == InitWriter /\ [][NextWriter]_vars

\* After any sequence of Write calls the length, and what Length() returns,
\* is the initial length plus the sum of the counts n the underlying writer
\* returned, and Write has returned what the underlying writer returned.
C21_LengthIsInitialPlusSum ==
    /\ lengthWriter.length = lengthWriter.initial + lengthWriter.sum
    /\ lengthWriter.ret = lengthWriter.under
    /\ lengthWriter.op = "Length" => lengthWriter.got = lengthWriter.initial + lengthWriter.sum

\* Length() changes no field of the writer.
C21_LengthChangesNothing ==
    [][Length => /\ lengthWriter'.length = lengthWriter.length
                 /\ lengthWriter'.writer = lengthWriter.writer
                 /\ lengthWriter'.interfaceType = lengthWriter.interfaceType]_vars

\* C21: for a WriterWithLength of either tag, after any sequence of Write
\* calls Length() is the initial length plus the sum of the counts n the
\* underlying writer returned, the Writes that returned an error or a short
\* count included; Write returns the underlying writer's n and error
\* unchanged; and Length() changes no state.
C21_WriterWithLength == []C21_LengthIsInitialPlusSum /\ C21_LengthChangesNothing

\* C21 witness: Length() called on a writer made with a length of 1, after a
\* Write that returned an error with one byte taken and another that took
\* none.
C21_Witness ==
    /\ lengthWriter.op = "Length" /\ lengthWriter.initial = 1
    /\ lengthWriter.writes = 2 /\ lengthWriter.sum = 1
    /\ lengthWriter.under = <<0, TRUE>>
    /\ lengthWriter.got = 2

(***************************************************************************)
(* The MITM WebSocket forwarder's writes, and the resources of a request   *)
(***************************************************************************)
\* What a forwarder has written to the client since the TLS handshake with it
\* succeeded: everything but the 200 line, which precedes the handshake.
AfterTLS == {i \in 1..Len(toClient) : toClient[i].kind # tunnelEstablishedResponseLine}

\* C22: in the MITM WebSocket forwarder, once the TLS server handshake with
\* the client has succeeded, everything the proxy sends to the client is
\* written through the TLS-wrapped client connection, never to the raw
\* hijacked socket.
C22_WritesThroughTLS ==
    (pc # "idle" /\ fwd # <<>> /\ Last(fwd) = "forwardHTTPSWebsocket" /\ loc.tlsReady)
        => \A i \in AfterTLS : toClient[i].via # "clientConn"

\* The same for the MITM HTTPS forwarder, which does write through the TLS
\* connection.
C22_HTTPSWritesThroughTLS ==
    (pc # "idle" /\ fwd # <<>> /\ Last(fwd) = "forwardHTTPS" /\ loc.tlsReady)
        => \A i \in AfterTLS : toClient[i].via = "tlsClientConn"

\* C23: on every exit path of every forwarder, each resource the handler
\* obtained during the request, the upstream response body, the dialed target
\* connection and the hijacked client connection, has been closed by the time
\* ServeHTTP returns.
C23_ResourcesClosed ==
    pc = "returned" => \A r \in DOMAIN res : res[r] # "open"

\* The hijacked client connection is closed on every exit path.
C23_ClientClosed ==
    pc = "returned" => res.client # "open"

\* Without a panic, the body and the target connection are left open only by
\* a BeforeResponse that aborted.
C23_OpenOnlyAfterAbort ==
    (pc = "returned" /\ ~panicking /\ (res.body = "open" \/ res.target = "open"))
        => ctx.errType = "BeforeResponseFail"

====
